---------------------------- MODULE Spec2Model ----------------------------
(***************************************************************************)
(* A model of @lickle/bin (src/src/index.ts, lines 1-645): the byte        *)
(* cursors (writer, reader, checkedReader), the primitive codecs, the      *)
(* combinators, the envelope and the driver functions.                     *)
(*                                                                         *)
(* A byte is a number in 0..255, a buffer a sequence of bytes.  A          *)
(* JavaScript value is a record [t |-> tag, v |-> payload]; a string is    *)
(* the sequence of its code points.  A codec is a record whose field k     *)
(* names the constructor that built it.  A thrown exception is a record    *)
(* [msg, need, at, len]; NoErr stands for normal completion.               *)
(*                                                                         *)
(* The model checker's integers are 32 bits wide and signed.  An unsigned  *)
(* 32-bit number x >= 2^31 is held as x - 2^32, which is one-to-one and    *)
(* has the same four bytes; U32Gt and Plus compare and add such numbers,   *)
(* and a cursor position of 2^31 - 1 or more is held as Far.               *)
(***************************************************************************)
EXTENDS Integers, Sequences, FiniteSets, TLC

(***************************************************************************)
(* Bounds of the model.                                                    *)
(***************************************************************************)
MaxArr == 2
MaxWrites == 3
MaxReads == 3

(***************************************************************************)
(* Values.                                                                 *)
(***************************************************************************)
Num(n) == [t |-> "num", v |-> n]
Str(s) == [t |-> "str", v |-> s]
Bin(b) == [t |-> "bytes", v |-> b]
Boo(b) == [t |-> "bool", v |-> b]
Arr(a) == [t |-> "arr", v |-> a]
Obj(f) == [t |-> "obj", v |-> f]
Undef == [t |-> "undef", v |-> 0]
Null == [t |-> "null", v |-> 0]

NoErr == [msg |-> "none", need |-> 0, at |-> 0, len |-> 0]
Err(m) == [msg |-> m, need |-> 0, at |-> 0, len |-> 0]

(***************************************************************************)
(* Sequence helpers.                                                       *)
(***************************************************************************)
Zeros(n) == [i \in 1..n |-> 0]

\* const a = ...; then(a): a value that is computed once and used more than once.
Let(a, then(_)) == then(a)

\* b.slice(o, e): both ends are clamped to the buffer.
Slice(b, o, e) ==
  LET lo == IF o > Len(b) THEN Len(b) ELSE o
      hi == IF e > Len(b) THEN Len(b) ELSE e
  IN  IF hi <= lo THEN <<>> ELSE SubSeq(b, lo + 1, hi)

\* b.set(data, o) on a buffer that has room for it.
Overlay(b, data, o) ==
  [i \in 1..Len(b) |-> IF i > o /\ i <= o + Len(data) THEN data[i - o] ELSE b[i]]

RECURSIVE Concat(_)
Concat(chunks) ==
  IF chunks = <<>> THEN <<>> ELSE Head(chunks) \o Concat(Tail(chunks))

(***************************************************************************)
(* TextEncoder / TextDecoder('utf-8', {fatal: true}).                      *)
(***************************************************************************)
\* The UTF-8 bytes of one code point; a lone surrogate is replaced by U+FFFD.
EncodeCodePoint(cp) ==
  LET c == IF cp >= 55296 /\ cp <= 57343 THEN 65533 ELSE cp
  IN  IF c < 128 THEN <<c>>
      ELSE IF c < 2048 THEN <<192 + (c \div 64), 128 + (c % 64)>>
      ELSE IF c < 65536
        THEN <<224 + (c \div 4096), 128 + ((c \div 64) % 64), 128 + (c % 64)>>
        ELSE <<240 + (c \div 262144), 128 + ((c \div 4096) % 64),
               128 + ((c \div 64) % 64), 128 + (c % 64)>>

RECURSIVE ENC(_)
ENC(s) == IF s = <<>> THEN <<>> ELSE EncodeCodePoint(Head(s)) \o ENC(Tail(s))

IsCont(b, i, lo, hi) == i <= Len(b) /\ b[i] >= lo /\ b[i] <= hi

\* The code points of a byte sequence, or <<-1>> where a fatal decoder throws.
RECURSIVE DecodeFrom(_, _)
DecodeFrom(b, i) ==
  IF i > Len(b) THEN <<>>
  ELSE LET b0 == b[i]
           n == IF b0 < 128 THEN 0
                ELSE IF b0 >= 194 /\ b0 <= 223 THEN 1
                ELSE IF b0 >= 224 /\ b0 <= 239 THEN 2
                ELSE IF b0 >= 240 /\ b0 <= 244 THEN 3
                ELSE -1
           lo == IF b0 = 224 THEN 160 ELSE IF b0 = 240 THEN 144 ELSE 128
           hi == IF b0 = 237 THEN 159 ELSE IF b0 = 244 THEN 143 ELSE 191
           ok == /\ n >= 0
                 /\ (n >= 1 => IsCont(b, i + 1, lo, hi))
                 /\ (n >= 2 => IsCont(b, i + 2, 128, 191))
                 /\ (n >= 3 => IsCont(b, i + 3, 128, 191))
           cp == IF n = 0 THEN b0
                 ELSE IF n = 1 THEN (b0 - 192) * 64 + (b[i + 1] - 128)
                 ELSE IF n = 2
                   THEN (b0 - 224) * 4096 + (b[i + 1] - 128) * 64 + (b[i + 2] - 128)
                   ELSE (b0 - 240) * 262144 + (b[i + 1] - 128) * 4096
                        + (b[i + 2] - 128) * 64 + (b[i + 3] - 128)
       IN  IF ~ok THEN <<-1>>
           ELSE LET rest == DecodeFrom(b, i + n + 1)
                IN  IF rest # <<>> /\ rest[Len(rest)] = -1 THEN <<-1>>
                    ELSE <<cp>> \o rest

\* DEC.decode(bytes): ignoreBOM is false, so a leading U+FEFF is dropped.
DEC(b) ==
  Let(DecodeFrom(b, 1), LAMBDA cps :
    IF cps # <<>> /\ cps[Len(cps)] = -1 THEN [ok |-> FALSE, s |-> <<>>]
    ELSE IF cps # <<>> /\ cps[1] = 65279 THEN [ok |-> TRUE, s |-> Tail(cps)]
    ELSE [ok |-> TRUE, s |-> cps])

\* s.replace(/\0+$/, '')
RECURSIVE StripNul(_)
StripNul(s) ==
  IF s # <<>> /\ s[Len(s)] = 0 THEN StripNul(SubSeq(s, 1, Len(s) - 1)) ELSE s

(***************************************************************************)
(* DataView accessors on the view dv(b) of a whole buffer.                 *)
(***************************************************************************)
RangeError == Err("RangeError")

Far == 2147483646 + 1
\* x > m, for an unsigned 32-bit x and a small m >= 0.
U32Gt(x, m) == x < 0 \/ x > m
\* a + b for a position a and an unsigned 32-bit b.
Plus(a, b) == IF a < 0 \/ b < 0 \/ a > Far - b THEN Far ELSE a + b
\* o + n > len, for a position o and an unsigned 32-bit n.
Past(o, n, len) == n < 0 \/ n > len - o
TypeError == Err("TypeError")

\* The bytes setUintN stores for x: x is reduced modulo 2^(8 * bytes).
RECURSIVE UintBytesBE(_, _)
UintBytesBE(bytes, x) ==
  IF bytes = 0 THEN <<>> ELSE Append(UintBytesBE(bytes - 1, x \div 256), x % 256)

RECURSIVE Reverse(_)
Reverse(s) == IF s = <<>> THEN <<>> ELSE Append(Reverse(Tail(s)), Head(s))

setter(bytes, x, le) ==
  LET be == UintBytesBE(bytes, x) IN IF le THEN Reverse(be) ELSE be

RECURSIVE UintOfBE(_)
UintOfBE(s) ==
  IF s = <<>> THEN 0 ELSE UintOfBE(SubSeq(s, 1, Len(s) - 1)) * 256 + s[Len(s)]

\* getUintN(o): a RangeError when the N bytes at o are not all inside the view.
getter(b, o, bytes, le) ==
  IF Past(o, bytes, Len(b)) THEN [val |-> Undef, err |-> RangeError]
  ELSE Let(IF le THEN Reverse(SubSeq(b, o + 1, o + bytes)) ELSE SubSeq(b, o + 1, o + bytes),
           LAMBDA be :
             [val |-> Num(IF bytes = 4 /\ be[1] >= 128
                            THEN UintOfBE(Tail(be)) - (256 - be[1]) * 16777216
                            ELSE UintOfBE(be)),
              err |-> NoErr])

(***************************************************************************)
(* writer(size): the fixed writer when size is a number (size >= 0), the   *)
(* growable writer otherwise (size = -1 stands for no argument).           *)
(***************************************************************************)
writer(size) ==
  IF size >= 0
    THEN [fixed |-> TRUE, buf |-> Zeros(size), pos |-> 0, bufs |-> <<>>, len |-> 0]
    ELSE [fixed |-> FALSE, buf |-> <<>>, pos |-> 0, bufs |-> <<>>, len |-> 0]

\* w.write(size, fn) where fn stores `data` at the offset it is handed, as
\* b.set(data, o) and the DataView setters do: both throw a RangeError, and
\* store nothing, when data does not fit between o and the end of b.
WriterWrite(w, size, data) ==
  IF w.fixed
    THEN IF w.pos + Len(data) > Len(w.buf)
           THEN [w |-> w, err |-> RangeError]
           ELSE [w |-> [w EXCEPT !.buf = Overlay(w.buf, data, w.pos),
                                 !.pos = w.pos + size],
                 err |-> NoErr]
    ELSE IF Len(data) > size
           THEN [w |-> w, err |-> RangeError]
           ELSE [w |-> [w EXCEPT !.bufs = Append(w.bufs, Overlay(Zeros(size), data, 0)),
                                 !.len = w.len + size],
                 err |-> NoErr]

flush(w) == IF w.fixed THEN w.buf ELSE Concat(w.bufs)

\* The number of bytes the writer has handed out so far.
Written(w) == IF w.fixed THEN w.pos ELSE w.len

(***************************************************************************)
(* reader(buf, offset) and checkedReader(buf, offset).                     *)
(***************************************************************************)
reader(buf, offset) == [checked |-> FALSE, buf |-> buf, pos |-> offset]
checkedReader(buf, offset) == [checked |-> TRUE, buf |-> buf, pos |-> offset]

\* The callbacks the codecs hand to read: fn(b, o, e).
Callback(fn, b, o, e) ==
  CASE fn.f = "getUint" -> getter(b, o, fn.bytes, fn.le)
    [] fn.f = "slice" -> [val |-> Bin(Slice(b, o, e)), err |-> NoErr]
    [] fn.f = "utf8" ->
         Let(DEC(Slice(b, o, e)), LAMBDA s :
           IF s.ok THEN [val |-> Str(s.s), err |-> NoErr]
           ELSE [val |-> Undef, err |-> TypeError])
    [] fn.f = "utf8fixed" ->
         Let(DEC(Slice(b, o, Plus(o, fn.fixed))), LAMBDA s :
           IF s.ok THEN [val |-> Str(StripNul(s.s)), err |-> NoErr]
           ELSE [val |-> Undef, err |-> TypeError])

\* A faulty ensure, which lets every read through: C5 must tell it from ensure.
ensureNothing(r, n) == NoErr

ensure(r, n) ==
  IF Past(r.pos, n, Len(r.buf))
    THEN [msg |-> "Out of bounds", need |-> n, at |-> r.pos, len |-> Len(r.buf)]
    ELSE NoErr

\* A faulty read, which tests the bounds for the unchecked reader too: C24
\* must tell it from ReaderRead.
ReaderReadChecks(r, size, fn) ==
  IF ensure(r, size) # NoErr
    THEN [r |-> r, val |-> Undef, err |-> ensure(r, size), called |-> FALSE]
  ELSE Let(Callback(fn, r.buf, r.pos, Plus(r.pos, size)), LAMBDA t :
         IF t.err # NoErr THEN [r |-> r, val |-> Undef, err |-> t.err, called |-> TRUE]
         ELSE [r |-> [r EXCEPT !.pos = Plus(r.pos, size)], val |-> t.val, err |-> NoErr,
               called |-> TRUE])
\* r.read(size, fn): the position moves only when nothing was thrown.
ReaderRead(r, size, fn) ==
  IF r.checked /\ ensure(r, size) # NoErr
    THEN [r |-> r, val |-> Undef, err |-> ensure(r, size), called |-> FALSE]
  ELSE Let(Callback(fn, r.buf, r.pos, Plus(r.pos, size)), LAMBDA t :
         IF t.err # NoErr THEN [r |-> r, val |-> Undef, err |-> t.err, called |-> TRUE]
         ELSE [r |-> [r EXCEPT !.pos = Plus(r.pos, size)], val |-> t.val, err |-> NoErr,
               called |-> TRUE])

(***************************************************************************)
(* JavaScript objects used as shapes.  A property name, a union tag and a  *)
(* literal's value are strings that the code only compares: they are       *)
(* values Sym(name).  An object is the sequence of its [key, val] entries  *)
(* in property order: integer-like keys first, in ascending order, then    *)
(* the other keys in the order in which they were first inserted.          *)
(***************************************************************************)
Sym(name) == [t |-> "sym", v |-> name]

IndexKeys == <<"0", "1", "2", "3">>
IsIndexKey(key) == \E i \in 1..Len(IndexKeys) : IndexKeys[i] = key

\* Object.fromEntries(entries), and an object literal with these properties.
ObjectFromEntries(entries) ==
  LET n == Len(entries)
      idx == [i \in 1..n |-> i]
      first(i) == \A j \in 1..(i - 1) : entries[j].key # entries[i].key
      last(key) == CHOOSE j \in 1..n :
                     entries[j].key = key /\ \A m \in (j + 1)..n : entries[m].key # key
      entry(i) == [key |-> entries[i].key, val |-> entries[last(entries[i].key)].val]
      strs == SelectSeq(idx, LAMBDA i : first(i) /\ ~IsIndexKey(entries[i].key))
      ints == SelectSeq([i \in 1..Len(IndexKeys) |-> i],
                        LAMBDA q : \E i \in 1..n : entries[i].key = IndexKeys[q])
      at(q) == CHOOSE i \in 1..n : entries[i].key = IndexKeys[q] /\ first(i)
  IN  [q \in 1..Len(ints) |-> entry(at(ints[q]))] \o [q \in 1..Len(strs) |-> entry(strs[q])]

\* Object.keys(o), also the order of for (const key in o).
ObjectKeys(o) == [i \in 1..Len(o) |-> o[i].key]
\* Object.entries(o)
ObjectEntries(o) == o

NoCodec == [k |-> "undefined"]
\* o[key]
Prop(o, key) ==
  IF \E i \in 1..Len(o) : o[i].key = key
    THEN o[CHOOSE i \in 1..Len(o) : o[i].key = key].val
    ELSE NoCodec

\* keys.indexOf(x), zero-based, -1 when absent.
IndexOf(keys, x) ==
  IF \E i \in 1..Len(keys) : keys[i] = x
    THEN (CHOOSE i \in 1..Len(keys) : keys[i] = x /\ \A j \in 1..(i - 1) : keys[j] # x) - 1
    ELSE -1

\* v[key] of a value; undefined when the property is missing.
Get(v, key) ==
  IF v.t = "obj" /\ key \in DOMAIN v.v THEN v.v[key] ELSE Undef
\* v[i] of an array value, zero-based.
Item(v, i) ==
  IF v.t = "arr" /\ i >= 0 /\ i < Len(v.v) THEN v.v[i + 1] ELSE Undef

\* The conversions the setters and TextEncoder apply to their argument.
ToNumber(v) ==
  CASE v.t = "num" -> v.v
    [] v.t = "bool" -> IF v.v THEN 1 ELSE 0
    [] OTHER -> 0
Truthy(v) ==
  CASE v.t = "bool" -> v.v
    [] v.t = "num" -> v.v # 0
    [] v.t = "str" -> v.v # <<>>
    [] v.t \in {"undef", "null"} -> FALSE
    [] OTHER -> TRUE
StrOf(v) == IF v.t = "str" THEN v.v ELSE <<>>
\* A value used as a property name ("" stands for a name no shape has).
KeyOf(v) == IF v.t = "sym" THEN v.v ELSE ""
BytesOf(v) == IF v.t = "bytes" THEN v.v ELSE <<>>

(***************************************************************************)
(* The codecs.  A missing option is -1.                                    *)
(***************************************************************************)
numCodec(bytes, endian) == [k |-> "uint", bytes |-> bytes, le |-> (endian = "le")]
Uint8 == numCodec(1, "be")
uint16(endian) == numCodec(2, endian)
Uint16 == uint16("be")
uint32(endian) == numCodec(4, endian)
Uint32 == uint32("be")
Bool == [k |-> "bool"]
Utf8 == [k |-> "utf8", maxBytes |-> -1]
utf8(p) ==
  IF p.fixed >= 0 THEN [k |-> "utf8fixed", fixed |-> p.fixed]
  ELSE [k |-> "utf8", maxBytes |-> p.maxBytes]
Bytes == [k |-> "bytes", max |-> -1]
bytes(p) ==
  IF p.fixed >= 0 THEN [k |-> "bytesfixed", fixed |-> p.fixed]
  ELSE IF p.max < 0 THEN Bytes
  ELSE [k |-> "bytes", max |-> p.max]
literal(value) == [k |-> "literal", value |-> value]
optional(inner) == [k |-> "optional", inner |-> inner]
nullable(inner) == [k |-> "nullable", inner |-> inner]
array(inner, maxLength) == [k |-> "array", inner |-> inner, max |-> maxLength]
struct(shape) == [k |-> "struct", schema |-> shape]
\* struct(Object.fromEntries(schemas.map((s) => Object.entries(s.schema)).flat()))
intersection(schemas) ==
  struct(ObjectFromEntries(
    Concat([i \in 1..Len(schemas) |-> ObjectEntries(schemas[i].schema)])))
tuple(shape) == [k |-> "tuple", schema |-> shape]
taggedUnion(shape) == [k |-> "taggedUnion", schema |-> shape, keys |-> ObjectKeys(shape)]
discriminatedUnion(tag, schema) ==
  [k |-> "discriminatedUnion", tag |-> tag, schema |-> schema,
   keys |-> [i \in 1..Len(schema) |-> Prop(schema[i].schema, tag).value]]
envelope(inner) == [k |-> "envelope", inner |-> inner]
validate(codec, pre, post) == [k |-> "validate", codec |-> codec, pre |-> pre, post |-> post]
map(codec, enc, dec) == [k |-> "map", codec |-> codec, encode |-> enc, decode |-> dec]

\* 0xb16ec0de >>> 0 = 2976825566, held as 2976825566 - 2^32
HEADER == -1318141730
VERSION == 1

\* The callbacks a caller hands to validate: "none" is no callback, "nonEmpty"
\* is the one of the documentation, (s) => { if (!s.length) throw ... }.
RunValidator(name, v) ==
  IF name = "nonEmpty" /\ StrOf(v) = <<>> THEN Err("empty string") ELSE NoErr

\* The projections a caller hands to map: "prefix" is (s) => '#' + s,
\* "unprefix" is (s) => s.slice(1), "same" is (s) => s.
Project(name, v) ==
  CASE name = "prefix" -> Str(<<35>> \o StrOf(v))
    [] name = "unprefix" -> Str(IF StrOf(v) = <<>> THEN <<>> ELSE Tail(StrOf(v)))
    [] OTHER -> v

(***************************************************************************)
(* The three operations of a codec: size(codec, value), which is codec.s   *)
(* when that is a number and codec.s(value) when it is a function, with    *)
(* result [n, err]; codec.e(w, v), with result [w, err], the writer as the *)
(* call leaves it and the exception that ended the call, if any; and       *)
(* codec.d(r), with result [r, val, err].                                  *)
(***************************************************************************)
RECURSIVE size(_, _), e(_, _, _), d(_, _)

Sized(n) == [n |-> n, err |-> NoErr]
SizeThrown(err) == [n |-> 0, err |-> err]
Written0(w) == [w |-> w, err |-> NoErr]
WriteThrown(w, err) == [w |-> w, err |-> err]
Thrown(r, err) == [r |-> r, val |-> Undef, err |-> err]
Returned(r, val) == [r |-> r, val |-> val, err |-> NoErr]
Read(r, n, fn) ==
  Let(ReaderRead(r, n, fn), LAMBDA a : [r |-> a.r, val |-> a.val, err |-> a.err])

\* numCodec(bytes, getter, setter)(endian)
numCodecE(c, w, v) == WriterWrite(w, c.bytes, setter(c.bytes, ToNumber(v), c.le))
numCodecD(c, r) == Read(r, c.bytes, [f |-> "getUint", bytes |-> c.bytes, le |-> c.le])

\* Bool
BoolE(c, w, v) == e(Uint8, w, Num(IF Truthy(v) THEN 1 ELSE 0))
\* A faulty boolean decoder, for which every byte but 0 is true: C18 must tell
\* it from BoolD.
BoolDTruthy(c, r) ==
  Let(d(Uint8, r), LAMBDA a :
    IF a.err # NoErr THEN a ELSE Returned(a.r, Boo(a.val.v # 0)))
BoolD(c, r) ==
  LET a == d(Uint8, r)
  IN  IF a.err # NoErr THEN a ELSE Returned(a.r, Boo(a.val.v = 1))

\* Utf8 and utf8({maxBytes})
utf8S(c, v) ==
  LET enc == ENC(StrOf(v))
  IN  IF c.maxBytes >= 0 /\ Len(enc) > c.maxBytes
        THEN SizeThrown(Err("utf8 too long"))
        ELSE Sized(4 + Len(enc))
utf8E(c, w, v) ==
  LET enc == ENC(StrOf(v))
  IN  IF c.maxBytes >= 0 /\ Len(enc) > c.maxBytes
        THEN WriteThrown(w, Err("utf8 too long"))
        ELSE LET a == e(Uint32, w, Num(Len(enc)))
             IN  IF a.err # NoErr THEN a ELSE WriterWrite(a.w, Len(enc), enc)
\* A faulty string decoder, which ignores maxBytes: C21 must tell it from utf8D.
utf8DUnbounded(c, r) ==
  Let(d(Uint32, r), LAMBDA n :
    IF n.err # NoErr THEN n ELSE Read(n.r, n.val.v, [f |-> "utf8"]))
utf8D(c, r) ==
  LET n == d(Uint32, r)
  IN  IF n.err # NoErr THEN n
      ELSE IF c.maxBytes >= 0 /\ U32Gt(n.val.v, c.maxBytes)
        THEN Thrown(n.r, Err("utf8 length > max"))
        ELSE Read(n.r, n.val.v, [f |-> "utf8"])

\* utf8({fixed})
utf8FixedE(c, w, v) == WriterWrite(w, c.fixed, ENC(StrOf(v)))
utf8FixedD(c, r) == Read(r, c.fixed, [f |-> "utf8fixed", fixed |-> c.fixed])

\* Bytes and bytes({max})
bytesS(c, v) ==
  IF c.max >= 0 /\ Len(BytesOf(v)) > c.max
    THEN SizeThrown(Err("bytes too long"))
    ELSE Sized(4 + Len(BytesOf(v)))
bytesE(c, w, v) ==
  IF c.max >= 0 /\ Len(BytesOf(v)) > c.max
    THEN WriteThrown(w, Err("bytes too long"))
    ELSE LET a == e(Uint32, w, Num(Len(BytesOf(v))))
         IN  IF a.err # NoErr THEN a
             ELSE WriterWrite(a.w, Len(BytesOf(v)), BytesOf(v))
bytesD(c, r) ==
  LET n == d(Uint32, r)
  IN  IF n.err # NoErr THEN n
      ELSE IF c.max >= 0 /\ U32Gt(n.val.v, c.max)
        THEN Thrown(n.r, Err("bytes length > max"))
        ELSE Read(n.r, n.val.v, [f |-> "slice"])

\* bytes({fixed})
bytesFixedE(c, w, v) == WriterWrite(w, c.fixed, BytesOf(v))
bytesFixedD(c, r) == Read(r, c.fixed, [f |-> "slice"])

\* literal(value)
literalE(c, w, v) == Written0(w)
\* A faulty literal decoder, which takes a slot of no bytes from the reader:
\* C17 must tell it from literalD.
literalDReads(c, r) ==
  Let(Read(r, 0, [f |-> "slice"]), LAMBDA a :
    IF a.err # NoErr THEN a ELSE Returned(a.r, c.value))
literalD(c, r) == Returned(r, c.value)

\* optional(inner)
optionalS(c, v) ==
  IF v.t = "undef" THEN Sized(1)
  ELSE LET a == size(c.inner, v) IN [a EXCEPT !.n = 1 + a.n]
optionalE(c, w, v) ==
  IF v.t = "undef" THEN e(Uint8, w, Num(0))
  ELSE LET a == e(Uint8, w, Num(1))
       IN  IF a.err # NoErr THEN a ELSE e(c.inner, a.w, v)
\* A faulty optional decoder, which takes the flag byte 1 alone for present:
\* C12 must tell it from optionalD.
optionalDStrict(c, r) ==
  Let(d(Uint8, r), LAMBDA a :
    IF a.err # NoErr THEN a
    ELSE IF a.val.v = 1 THEN d(c.inner, a.r) ELSE Returned(a.r, Undef))
optionalD(c, r) ==
  LET a == d(Uint8, r)
  IN  IF a.err # NoErr THEN a
      ELSE IF a.val.v = 0 THEN Returned(a.r, Undef) ELSE d(c.inner, a.r)

\* nullable(inner)
nullableS(c, v) ==
  IF v.t = "null" THEN Sized(1)
  ELSE LET a == size(c.inner, v) IN [a EXCEPT !.n = 1 + a.n]
nullableE(c, w, v) ==
  IF v.t = "null" THEN e(Uint8, w, Num(0))
  ELSE LET a == e(Uint8, w, Num(1))
       IN  IF a.err # NoErr THEN a ELSE e(c.inner, a.w, v)
nullableD(c, r) ==
  LET a == d(Uint8, r)
  IN  IF a.err # NoErr THEN a
      ELSE IF a.val.v = 0 THEN Returned(a.r, Null) ELSE d(c.inner, a.r)

\* array(inner, {maxLength})
RECURSIVE SizeEach(_, _, _), EncodeEach(_, _, _, _), DecodeEach(_, _, _, _)
\* v.reduce((acc, item) => acc + size(inner, item), 0), from item i on.
SizeEach(inner, v, i) ==
  IF i > Len(v.v) THEN Sized(0)
  ELSE LET a == size(inner, v.v[i])
       IN  IF a.err # NoErr THEN a
           ELSE LET b == SizeEach(inner, v, i + 1)
                IN  IF b.err # NoErr THEN b ELSE Sized(a.n + b.n)
\* for (const item of v) inner.e(w, item), from item i on.
EncodeEach(inner, w, v, i) ==
  IF i > Len(v.v) THEN Written0(w)
  ELSE LET a == e(inner, w, v.v[i])
       IN  IF a.err # NoErr THEN a ELSE EncodeEach(inner, a.w, v, i + 1)
\* for (let i = 0; i < n; i++) out[i] = inner.d(r); acc holds out[0..i-1].
DecodeEach(inner, r, n, acc) ==
  IF ~U32Gt(n, Len(acc)) THEN Returned(r, Arr(acc))
  ELSE LET a == d(inner, r)
       IN  IF a.err # NoErr THEN Thrown(a.r, a.err)
           ELSE DecodeEach(inner, a.r, n, Append(acc, a.val))
arrayS(c, v) ==
  IF v.t # "arr" THEN SizeThrown(TypeError)
  ELSE IF c.max >= 0 /\ Len(v.v) > c.max THEN SizeThrown(Err("array too long"))
  ELSE LET a == SizeEach(c.inner, v, 1) IN [a EXCEPT !.n = 4 + a.n]
\* A faulty array encoder, which writes the items last to first: C10 must
\* tell it from arrayE.
arrayEBackwards(c, w, v) ==
  IF c.max >= 0 /\ Len(v.v) > c.max THEN WriteThrown(w, Err("array too long"))
  ELSE EncodeEach(c.inner, e(Uint32, w, Num(Len(v.v))).w, Arr(Reverse(v.v)), 1)
arrayE(c, w, v) ==
  IF v.t # "arr" THEN WriteThrown(w, TypeError)
  ELSE IF c.max >= 0 /\ Len(v.v) > c.max THEN WriteThrown(w, Err("array too long"))
  ELSE LET a == e(Uint32, w, Num(Len(v.v)))
       IN  IF a.err # NoErr THEN a ELSE EncodeEach(c.inner, a.w, v, 1)
\* A faulty array decoder, which ignores maxLength: C9 must tell it from arrayD.
arrayDUnbounded(c, r) ==
  Let(d(Uint32, r), LAMBDA n :
    IF n.err # NoErr THEN n ELSE DecodeEach(c.inner, n.r, n.val.v, <<>>))
arrayD(c, r) ==
  LET n == d(Uint32, r)
  IN  IF n.err # NoErr THEN n
      ELSE IF c.max >= 0 /\ U32Gt(n.val.v, c.max)
        THEN Thrown(n.r, Err("array len > max"))
        ELSE DecodeEach(c.inner, n.r, n.val.v, <<>>)

\* struct(shape)
RECURSIVE SizeFields(_, _, _), EncodeFields(_, _, _, _), DecodeFields(_, _, _, _)
\* Object.keys(shape).reduce((acc, key) => acc + size(shape[key], v[key]), 0)
SizeFields(shape, v, i) ==
  IF i > Len(shape) THEN Sized(0)
  ELSE IF v.t \in {"undef", "null"} THEN SizeThrown(TypeError)
  ELSE LET a == size(shape[i].val, Get(v, shape[i].key))
       IN  IF a.err # NoErr THEN a
           ELSE LET b == SizeFields(shape, v, i + 1)
                IN  IF b.err # NoErr THEN b ELSE Sized(a.n + b.n)
\* for (const key in shape) shape[key].e(w, v[key]), from the i-th key on.
EncodeFields(shape, w, v, i) ==
  IF i > Len(shape) THEN Written0(w)
  ELSE IF v.t \in {"undef", "null"} THEN WriteThrown(w, TypeError)
  ELSE LET a == e(shape[i].val, w, Get(v, shape[i].key))
       IN  IF a.err # NoErr THEN a ELSE EncodeFields(shape, a.w, v, i + 1)
\* for (const key in shape) result[key] = shape[key].d(r), from the i-th key on;
\* acc holds the values of the keys before it.
DecodeFields(shape, r, i, acc) ==
  IF i > Len(shape)
    THEN Returned(r, Obj([key \in {shape[j].key : j \in 1..Len(shape)} |->
                            acc[CHOOSE j \in 1..Len(shape) : shape[j].key = key]]))
  ELSE LET a == d(shape[i].val, r)
       IN  IF a.err # NoErr THEN Thrown(a.r, a.err)
           ELSE DecodeFields(shape, a.r, i + 1, Append(acc, a.val))
structS(c, v) == SizeFields(c.schema, v, 1)
structE(c, w, v) == EncodeFields(c.schema, w, v, 1)
structD(c, r) == DecodeFields(c.schema, r, 1, <<>>)

\* tuple(...shape)
RECURSIVE SizeTuple(_, _, _), EncodeTuple(_, _, _, _), DecodeTuple(_, _, _, _)
\* v.reduce((acc, item, i) => acc + size(shape[i], item), 0): one step for each
\* item of the value, shape[i] being undefined beyond the last codec.
SizeTuple(shape, v, i) ==
  IF v.t # "arr" THEN SizeThrown(TypeError)
  ELSE IF i > Len(v.v) THEN Sized(0)
  ELSE LET a == size(IF i <= Len(shape) THEN shape[i] ELSE NoCodec, v.v[i])
       IN  IF a.err # NoErr THEN a
           ELSE LET b == SizeTuple(shape, v, i + 1)
                IN  IF b.err # NoErr THEN b ELSE Sized(a.n + b.n)
\* for (let i = 0; i < shape.length; i++) shape[i].e(w, v[i])
EncodeTuple(shape, w, v, i) ==
  IF i > Len(shape) THEN Written0(w)
  ELSE IF v.t \in {"undef", "null"} THEN WriteThrown(w, TypeError)
  ELSE LET a == e(shape[i], w, Item(v, i - 1))
       IN  IF a.err # NoErr THEN a ELSE EncodeTuple(shape, a.w, v, i + 1)
\* for (let i = 0; i < shape.length; i++) result.push(shape[i].d(r))
DecodeTuple(shape, r, i, acc) ==
  IF i > Len(shape) THEN Returned(r, Arr(acc))
  ELSE LET a == d(shape[i], r)
       IN  IF a.err # NoErr THEN Thrown(a.r, a.err)
           ELSE DecodeTuple(shape, a.r, i + 1, Append(acc, a.val))
tupleS(c, v) == SizeTuple(c.schema, v, 1)
tupleE(c, w, v) == EncodeTuple(c.schema, w, v, 1)
tupleD(c, r) == DecodeTuple(c.schema, r, 1, <<>>)

\* taggedUnion(shape)
taggedUnionS(c, v) ==
  IF v.t # "arr" THEN SizeThrown(TypeError)
  ELSE LET a == size(Prop(c.schema, KeyOf(Item(v, 0))), Item(v, 1))
       IN  [a EXCEPT !.n = 1 + a.n]
\* A faulty tagged-union encoder, which writes the index before it tests it:
\* C14 must tell it from taggedUnionE.
taggedUnionEWritesFirst(c, w, v) ==
  IF v.t # "arr" THEN WriteThrown(w, TypeError)
  ELSE Let(e(Uint8, w, Num(IndexOf(c.keys, KeyOf(Item(v, 0))))), LAMBDA a :
         IF a.err # NoErr THEN a
         ELSE IF IndexOf(c.keys, KeyOf(Item(v, 0))) < 0 THEN WriteThrown(a.w, Err("bad tag"))
         ELSE e(Prop(c.schema, KeyOf(Item(v, 0))), a.w, Item(v, 1)))
taggedUnionE(c, w, v) ==
  IF v.t # "arr" THEN WriteThrown(w, TypeError)
  ELSE LET idx == IndexOf(c.keys, KeyOf(Item(v, 0)))
       IN  IF idx < 0 THEN WriteThrown(w, Err("bad tag"))
           ELSE LET a == e(Uint8, w, Num(idx))
                IN  IF a.err # NoErr THEN a
                    ELSE e(Prop(c.schema, KeyOf(Item(v, 0))), a.w, Item(v, 1))
\* A faulty tagged-union decoder, which wraps an index beyond the last variant
\* round to the first: C15 must tell it from taggedUnionD.
taggedUnionDWraps(c, r) ==
  Let(d(Uint8, r), LAMBDA idx :
    IF idx.err # NoErr THEN idx
    ELSE Let(d(Prop(c.schema, c.keys[(idx.val.v % Len(c.keys)) + 1]), idx.r), LAMBDA a :
           IF a.err # NoErr THEN a
           ELSE Returned(a.r, Arr(<<Sym(c.keys[(idx.val.v % Len(c.keys)) + 1]), a.val>>))))
taggedUnionD(c, r) ==
  LET idx == d(Uint8, r)
  IN  IF idx.err # NoErr THEN idx
      ELSE IF idx.val.v < 0 \/ idx.val.v >= Len(c.keys)
        THEN Thrown(idx.r, Err("bad tag index"))
        ELSE LET key == c.keys[idx.val.v + 1]
                 a == d(Prop(c.schema, key), idx.r)
             IN  IF a.err # NoErr THEN a
                 ELSE Returned(a.r, Arr(<<Sym(key), a.val>>))

\* discriminatedUnion(tag, schema)
discriminatedUnionS(c, v) ==
  IF v.t \in {"undef", "null"} THEN SizeThrown(TypeError)
  ELSE LET idx == IndexOf(c.keys, Get(v, c.tag))
           a == size(IF idx >= 0 THEN c.schema[idx + 1] ELSE NoCodec, v)
       IN  [a EXCEPT !.n = 1 + a.n]
\* A faulty discriminated-union encoder, which writes the index of the first
\* schema whichever schema it encodes with: C16 must tell it from
\* discriminatedUnionE.
discriminatedUnionEFirst(c, w, v) ==
  IF v.t \in {"undef", "null"} THEN WriteThrown(w, TypeError)
  ELSE Let(e(Uint8, w, Num(0)), LAMBDA a :
         IF a.err # NoErr THEN a
         ELSE e(IF IndexOf(c.keys, Get(v, c.tag)) >= 0
                  THEN c.schema[IndexOf(c.keys, Get(v, c.tag)) + 1] ELSE NoCodec, a.w, v))
discriminatedUnionE(c, w, v) ==
  IF v.t \in {"undef", "null"} THEN WriteThrown(w, TypeError)
  ELSE LET idx == IndexOf(c.keys, Get(v, c.tag))
           a == e(Uint8, w, Num(idx))
       IN  IF a.err # NoErr THEN a
           ELSE e(IF idx >= 0 THEN c.schema[idx + 1] ELSE NoCodec, a.w, v)
discriminatedUnionD(c, r) ==
  LET idx == d(Uint8, r)
  IN  IF idx.err # NoErr THEN idx
      ELSE d(IF idx.val.v < Len(c.schema) THEN c.schema[idx.val.v + 1] ELSE NoCodec,
             idx.r)

\* encode(bincode, value): [bytes, err].
encode(bincode, value) ==
  LET a == e(bincode, writer(-1), value)
  IN  [bytes |-> IF a.err = NoErr THEN flush(a.w) ELSE <<>>, err |-> a.err]

\* envelope(inner)
envelopeS(c, v) ==
  LET a == size(c.inner, v) IN [a EXCEPT !.n = 4 + 2 + 4 + a.n]
envelopeE(c, w, v) ==
  LET a == e(Uint32, w, Num(HEADER))
      b == e(Uint16, a.w, Num(VERSION))
      payload == encode(c.inner, v)
      n == e(Uint32, b.w, Num(Len(payload.bytes)))
  IN  IF a.err # NoErr THEN a
      ELSE IF b.err # NoErr THEN b
      ELSE IF payload.err # NoErr THEN WriteThrown(b.w, payload.err)
      ELSE IF n.err # NoErr THEN n
      ELSE WriterWrite(n.w, Len(payload.bytes), payload.bytes)
\* The payload is decoded through reader(payload), an unchecked reader of its own.
\* A faulty envelope decoder, which reads header, version and length before
\* it tests any of them: C8 must tell it from envelopeD.
envelopeDReadsAhead(c, r) ==
  Let(d(Uint32, d(Uint16, d(Uint32, r).r).r), LAMBDA n :
    IF d(Uint32, r).err # NoErr THEN d(Uint32, r)
    ELSE IF d(Uint16, d(Uint32, r).r).err # NoErr THEN d(Uint16, d(Uint32, r).r)
    ELSE IF n.err # NoErr THEN n
    ELSE IF d(Uint32, r).val.v # HEADER THEN Thrown(n.r, Err("Missing header"))
    ELSE IF d(Uint16, d(Uint32, r).r).val.v # 1 THEN Thrown(n.r, Err("unsupported version"))
    ELSE Let(Read(n.r, n.val.v, [f |-> "slice"]), LAMBDA payload :
           IF payload.err # NoErr THEN payload
           ELSE Let(d(c.inner, reader(payload.val.v, 0)), LAMBDA x :
                  IF x.err # NoErr THEN Thrown(payload.r, x.err)
                  ELSE Returned(payload.r, x.val))))
\* A faulty envelope decoder, which hands the inner codec the outer reader
\* where the payload begins: C26 must tell it from envelopeD.
envelopeDUnframed(c, r) ==
  Let(d(Uint32, d(Uint16, d(Uint32, r).r).r), LAMBDA n :
    IF d(Uint32, r).err # NoErr THEN d(Uint32, r)
    ELSE IF d(Uint32, r).val.v # HEADER THEN Thrown(d(Uint32, r).r, Err("Missing header"))
    ELSE IF d(Uint16, d(Uint32, r).r).err # NoErr THEN d(Uint16, d(Uint32, r).r)
    ELSE IF d(Uint16, d(Uint32, r).r).val.v # 1
      THEN Thrown(d(Uint16, d(Uint32, r).r).r, Err("unsupported version"))
    ELSE IF n.err # NoErr THEN n
    ELSE d(c.inner, n.r))
envelopeD(c, r) ==
  LET h == d(Uint32, r)
      ver == d(Uint16, h.r)
      n == d(Uint32, ver.r)
      payload == Read(n.r, n.val.v, [f |-> "slice"])
      a == d(c.inner, reader(payload.val.v, 0))
  IN  IF h.err # NoErr THEN h
      ELSE IF h.val.v # HEADER THEN Thrown(h.r, Err("Missing header"))
      ELSE IF ver.err # NoErr THEN ver
      ELSE IF ver.val.v # 1 THEN Thrown(ver.r, Err("unsupported version"))
      ELSE IF n.err # NoErr THEN n
      ELSE IF payload.err # NoErr THEN payload
      ELSE IF a.err # NoErr THEN Thrown(payload.r, a.err)
      ELSE Returned(payload.r, a.val)

\* validate(codec, pre, post): {...codec, e, d}, so s is codec.s.
validateS(c, v) == size(c.codec, v)
\* A faulty validate, which runs pre when the codec has written: C22 must
\* tell it from validateE.
validateELate(c, w, v) ==
  Let(e(c.codec, w, v), LAMBDA a :
    IF a.err # NoErr THEN a
    ELSE IF c.pre # "none" /\ RunValidator(c.pre, v) # NoErr
      THEN WriteThrown(a.w, RunValidator(c.pre, v))
    ELSE a)
validateE(c, w, v) ==
  LET a == IF c.pre # "none" THEN RunValidator(c.pre, v) ELSE NoErr
  IN  IF a # NoErr THEN WriteThrown(w, a) ELSE e(c.codec, w, v)
validateD(c, r) ==
  LET out == d(c.codec, r)
      post == IF c.post # "none" THEN RunValidator(c.post, out.val) ELSE NoErr
  IN  IF out.err # NoErr THEN out
      ELSE IF post # NoErr THEN Thrown(out.r, post)
      ELSE out

\* map(codec, encode, decode): {...codec, e, d}, so s is codec.s, which is
\* handed the value as the caller passes it.
mapS(c, v) == size(c.codec, v)
mapE(c, w, v) == e(c.codec, w, Project(c.encode, v))
mapD(c, r) ==
  LET a == d(c.codec, r)
  IN  IF a.err # NoErr THEN a ELSE Returned(a.r, Project(c.decode, a.val))

size(c, v) ==
  CASE c.k = "undefined" -> SizeThrown(TypeError)
    [] c.k = "uint" -> Sized(c.bytes)
    [] c.k = "bool" -> Sized(1)
    [] c.k = "utf8" -> utf8S(c, v)
    [] c.k = "utf8fixed" -> Sized(c.fixed)
    [] c.k = "bytes" -> bytesS(c, v)
    [] c.k = "bytesfixed" -> Sized(c.fixed)
    [] c.k = "literal" -> Sized(0)
    [] c.k = "optional" -> optionalS(c, v)
    [] c.k = "nullable" -> nullableS(c, v)
    [] c.k = "array" -> arrayS(c, v)
    [] c.k = "struct" -> structS(c, v)
    [] c.k = "tuple" -> tupleS(c, v)
    [] c.k = "taggedUnion" -> taggedUnionS(c, v)
    [] c.k = "discriminatedUnion" -> discriminatedUnionS(c, v)
    [] c.k = "envelope" -> envelopeS(c, v)
    [] c.k = "validate" -> validateS(c, v)
    [] c.k = "map" -> mapS(c, v)

e(c, w, v) ==
  CASE c.k = "undefined" -> WriteThrown(w, TypeError)
    [] c.k = "uint" -> numCodecE(c, w, v)
    [] c.k = "bool" -> BoolE(c, w, v)
    [] c.k = "utf8" -> utf8E(c, w, v)
    [] c.k = "utf8fixed" -> utf8FixedE(c, w, v)
    [] c.k = "bytes" -> bytesE(c, w, v)
    [] c.k = "bytesfixed" -> bytesFixedE(c, w, v)
    [] c.k = "literal" -> literalE(c, w, v)
    [] c.k = "optional" -> optionalE(c, w, v)
    [] c.k = "nullable" -> nullableE(c, w, v)
    [] c.k = "array" -> arrayE(c, w, v)
    [] c.k = "struct" -> structE(c, w, v)
    [] c.k = "tuple" -> tupleE(c, w, v)
    [] c.k = "taggedUnion" -> taggedUnionE(c, w, v)
    [] c.k = "discriminatedUnion" -> discriminatedUnionE(c, w, v)
    [] c.k = "envelope" -> envelopeE(c, w, v)
    [] c.k = "validate" -> validateE(c, w, v)
    [] c.k = "map" -> mapE(c, w, v)

d(c, r) ==
  CASE c.k = "undefined" -> Thrown(r, TypeError)
    [] c.k = "uint" -> numCodecD(c, r)
    [] c.k = "bool" -> BoolD(c, r)
    [] c.k = "utf8" -> utf8D(c, r)
    [] c.k = "utf8fixed" -> utf8FixedD(c, r)
    [] c.k = "bytes" -> bytesD(c, r)
    [] c.k = "bytesfixed" -> bytesFixedD(c, r)
    [] c.k = "literal" -> literalD(c, r)
    [] c.k = "optional" -> optionalD(c, r)
    [] c.k = "nullable" -> nullableD(c, r)
    [] c.k = "array" -> arrayD(c, r)
    [] c.k = "struct" -> structD(c, r)
    [] c.k = "tuple" -> tupleD(c, r)
    [] c.k = "taggedUnion" -> taggedUnionD(c, r)
    [] c.k = "discriminatedUnion" -> discriminatedUnionD(c, r)
    [] c.k = "envelope" -> envelopeD(c, r)
    [] c.k = "validate" -> validateD(c, r)
    [] c.k = "map" -> mapD(c, r)

\* write(writer, codec, value)
write(w, codec, value) == e(codec, w, value)

\* decode(bincode, value)
decode(bincode, value) == d(bincode, reader(value, 0))

\* A faulty tryDecode, which catches bounds errors only: C6 must tell it from
\* tryDecode.
tryDecodeBoundsOnly(codec, data) ==
  Let(d(codec, checkedReader(data, 0)), LAMBDA a :
    IF a.err = NoErr
      THEN [ok |-> TRUE, value |-> a.val, error |-> NoErr, thrown |-> FALSE]
      ELSE [ok |-> FALSE, value |-> Undef, error |-> a.err,
            thrown |-> a.err.msg # "Out of bounds"])
\* tryDecode(codec, data): [ok, value, error, thrown]; error stands for the
\* message of the exception caught, with the numbers the message of a bounds
\* error holds; thrown says that an exception left the call.
tryDecode(codec, data) ==
  LET a == d(codec, checkedReader(data, 0))
  IN  IF a.err = NoErr
        THEN [ok |-> TRUE, value |-> a.val, error |-> NoErr, thrown |-> FALSE]
        ELSE [ok |-> FALSE, value |-> Undef, error |-> a.err, thrown |-> FALSE]

\* read(reader, ...codes): the codecs in turn over one reader.
RECURSIVE read(_, _, _)
read(r, codes, acc) ==
  IF codes = <<>> THEN Returned(r, Arr(acc))
  ELSE LET a == d(Head(codes), r)
       IN  IF a.err # NoErr THEN Thrown(a.r, a.err)
           ELSE read(a.r, Tail(codes), Append(acc, a.val))

\* expect(decoded).toEqual(value): a property that is undefined counts as a
\* property that is missing.
RECURSIVE DeepEqual(_, _)
DeepEqual(a, b) ==
  IF a.t = "obj" /\ b.t = "obj"
    THEN \A key \in (DOMAIN a.v) \cup (DOMAIN b.v) : DeepEqual(Get(a, key), Get(b, key))
  ELSE IF a.t = "arr" /\ b.t = "arr"
    THEN Len(a.v) = Len(b.v) /\ \A i \in 1..Len(a.v) : DeepEqual(a.v[i], b.v[i])
  ELSE a.t = b.t /\ a.v = b.v

(***************************************************************************)
(* The codecs and values the model runs the library on.                    *)
(***************************************************************************)
\* {key: val} as an entry of an object literal.
F(key, val) == [key |-> key, val |-> val]

Strings == << <<>>, <<97>>, <<97, 0>>, <<233>>, <<65279, 97>>, <<97, 98, 99>>, <<65279>> >>
ByteArrays == << <<>>, <<1>>, <<0, 255>>, <<1, 2, 3>> >>

TagA == struct(ObjectFromEntries(<<F("tag", literal(Sym("a"))), F("a", Utf8)>>))
TagB == struct(ObjectFromEntries(<<F("tag", literal(Sym("b"))), F("b", Uint8)>>))
OneTwo == taggedUnion(ObjectFromEntries(<<F("one", Uint8), F("two", array(Uint8, -1))>>))
Prefixed == map(Utf8, "prefix", "unprefix")
\* {b: ..., 1: ...}: the fields of an object literal in the order it lists
\* them, the second name being integer-like.
Numbered == <<F("b", Uint8), F("1", uint16("be"))>>
NumberedStruct == struct(ObjectFromEntries(Numbered))
NumberedVariants == <<F("b", Uint8), F("1", Bool)>>
NumberedUnion == taggedUnion(ObjectFromEntries(NumberedVariants))
Fixed2 == utf8([fixed |-> 2, maxBytes |-> -1])
Counted == struct(ObjectFromEntries(<<F("n", Uint8), F("u", OneTwo)>>))
Spaced == tuple(<<Uint8, literal(Sym("ok")), Uint8>>)
NonEmpty == validate(Utf8, "nonEmpty", "nonEmpty")
Checked == struct(ObjectFromEntries(<<F("n", Uint8), F("s", NonEmpty)>>))
\* The lists of schemas handed to intersection: the name a is in both schemas
\* of the first list, the second list brings in an integer-like name last.
Intersections ==
  << << struct(ObjectFromEntries(<<F("a", Utf8), F("c", Bool)>>)),
        struct(ObjectFromEntries(<<F("b", Bool), F("a", Uint8)>>)) >>,
     << struct(ObjectFromEntries(<<F("b", Uint8)>>)),
        struct(ObjectFromEntries(<<F("1", Bool)>>)) >> >>
TwoFixed == struct(ObjectFromEntries(<<F("a", Fixed2), F("b", Fixed2)>>))

Codecs ==
  << Uint8, uint16("le"), Uint32, Bool,
     Utf8, utf8([fixed |-> -1, maxBytes |-> 1]), Fixed2, utf8([fixed |-> 3, maxBytes |-> -1]),
     Bytes, bytes([fixed |-> -1, max |-> 1]), bytes([fixed |-> 2, max |-> -1]),
     literal(Sym("ok")),
     optional(Utf8), nullable(Uint8),
     array(Uint8, -1), array(Bool, 1),
     struct(ObjectFromEntries(<<F("a", Utf8), F("n", Uint8), F("o", optional(Uint8))>>)),
     tuple(<<Uint8, uint16("be"), optional(Uint8)>>),
     OneTwo,
     discriminatedUnion("tag", <<TagA, TagB>>),
     envelope(Utf8), envelope(array(Uint8, -1)), envelope(Prefixed),
     NonEmpty, Checked, intersection(Intersections[1]), intersection(Intersections[2]),
     Prefixed, map(Utf8, "same", "same"),
     struct(ObjectFromEntries(<<F("x", Prefixed)>>)),
     struct(ObjectFromEntries(<<F("a", Fixed2), F("n", Uint8)>>)),
     NumberedStruct, NumberedUnion, TwoFixed, Spaced,
     struct(ObjectFromEntries(
       <<F("items", array(optional(taggedUnion(ObjectFromEntries(
                      <<F("u", Bool), F("t", literal(Sym("t")))>>))),
                    -1))>>)) >>

\* The values of the type a codec encodes, listed: over Strings, ByteArrays
\* and a few numbers, arrays having up to MaxArr items (one more where the
\* codec has a maximum length).
RECURSIVE Values(_), FieldValues(_, _), TupleValues(_, _), ItemValues(_, _),
          ArrayValues(_, _), VariantValues(_, _), SchemaValues(_, _)
FieldValues(shape, i) ==
  IF i > Len(shape) THEN << [key \in {} |-> Undef] >>
  ELSE LET X == Values(shape[i].val)
           R == FieldValues(shape, i + 1)
           With(f, x) == [key \in (DOMAIN f) \cup {shape[i].key} |->
                            IF key = shape[i].key THEN x ELSE f[key]]
       IN  [j \in 1..(Len(X) * Len(R)) |->
              With(R[((j - 1) % Len(R)) + 1], X[((j - 1) \div Len(R)) + 1])]
TupleValues(shape, i) ==
  IF i > Len(shape) THEN << <<>> >>
  ELSE LET X == Values(shape[i])
           R == TupleValues(shape, i + 1)
       IN  [j \in 1..(Len(X) * Len(R)) |->
              <<X[((j - 1) \div Len(R)) + 1]>> \o R[((j - 1) % Len(R)) + 1]]
ItemValues(X, n) ==
  IF n = 0 THEN << <<>> >>
  ELSE LET R == ItemValues(X, n - 1)
       IN  [j \in 1..(Len(X) * Len(R)) |->
              <<X[((j - 1) \div Len(R)) + 1]>> \o R[((j - 1) % Len(R)) + 1]]
ArrayValues(X, n) ==
  IF n < 0 THEN <<>> ELSE ArrayValues(X, n - 1) \o ItemValues(X, n)
VariantValues(c, i) ==
  IF i > Len(c.keys) THEN <<>>
  ELSE LET X == Values(c.schema[i].val)
       IN  [j \in 1..Len(X) |-> Arr(<<Sym(c.keys[i]), X[j]>>)] \o VariantValues(c, i + 1)
SchemaValues(c, i) ==
  IF i > Len(c.schema) THEN <<>>
  ELSE Values(c.schema[i]) \o SchemaValues(c, i + 1)
Values(c) ==
  CASE c.k = "uint" ->
         IF c.bytes = 1 THEN <<Num(0), Num(1), Num(255)>>
         ELSE IF c.bytes = 2 THEN <<Num(0), Num(258)>>
         ELSE <<Num(0), Num(65537)>>
    [] c.k = "bool" -> <<Boo(TRUE), Boo(FALSE)>>
    [] c.k \in {"utf8", "utf8fixed"} -> [j \in 1..Len(Strings) |-> Str(Strings[j])]
    [] c.k \in {"bytes", "bytesfixed"} -> [j \in 1..Len(ByteArrays) |-> Bin(ByteArrays[j])]
    [] c.k = "literal" -> <<c.value>>
    [] c.k = "optional" -> <<Undef>> \o Values(c.inner)
    [] c.k = "nullable" -> <<Null>> \o Values(c.inner)
    [] c.k = "array" ->
         LET X == ArrayValues(Values(c.inner), IF c.max >= 0 THEN c.max + 1 ELSE MaxArr)
         IN  [j \in 1..Len(X) |-> Arr(X[j])]
    [] c.k = "struct" ->
         LET X == FieldValues(c.schema, 1) IN [j \in 1..Len(X) |-> Obj(X[j])]
    [] c.k = "tuple" ->
         LET X == TupleValues(c.schema, 1) IN [j \in 1..Len(X) |-> Arr(X[j])]
    [] c.k = "taggedUnion" -> VariantValues(c, 1)
    [] c.k = "discriminatedUnion" -> SchemaValues(c, 1)
    [] c.k = "envelope" -> Values(c.inner)
    [] c.k \in {"validate", "map"} -> Values(c.codec)

\* Values outside the type of the codec, as an untyped caller may pass them.
Untyped ==
  << [codec |-> OneTwo, value |-> Arr(<<Sym("three"), Num(1)>>)],
     [codec |-> discriminatedUnion("tag", <<TagA, TagB>>),
      value |-> Obj([tag |-> Sym("c"), a |-> Str(<<97>>)])],
     [codec |-> tuple(<<Uint8, optional(Uint8)>>), value |-> Arr(<<Num(7)>>)],
     [codec |-> tuple(<<Uint8, optional(Uint8)>>),
      value |-> Arr(<<Num(7), Num(8), Num(9)>>)],
     [codec |-> literal(Sym("ok")), value |-> Num(7)],
     [codec |-> Counted,
      value |-> Obj([n |-> Num(7), u |-> Arr(<<Sym("three"), Num(1)>>)])] >>

\* A taggedUnion of 257 variants v0 .. v256, each a Uint8, and values of
\* its first variant, of the last one whose index fits a byte, and of the
\* one after it.
MaxVariants == 257
VariantName(i) == "v" \o ToString(i)
Wide ==
  taggedUnion(ObjectFromEntries([i \in 1..MaxVariants |-> F(VariantName(i - 1), Uint8)]))
WideValues ==
  << Arr(<<Sym(VariantName(0)), Num(7)>>), Arr(<<Sym(VariantName(255)), Num(7)>>),
     Arr(<<Sym(VariantName(256)), Num(7)>>) >>

\* The runs of the encoders: each codec with each value of its type, then the
\* untyped values, then the union of many variants.
RECURSIVE CasesFrom(_)
CasesFrom(i) ==
  IF i > Len(Codecs)
    THEN [j \in 1..Len(Untyped) |->
            [codec |-> Untyped[j].codec, value |-> Untyped[j].value, typed |-> FALSE]]
           \o [j \in 1..Len(WideValues) |->
                 [codec |-> Wide, value |-> WideValues[j], typed |-> TRUE]]
    ELSE LET X == Values(Codecs[i])
         IN  [j \in 1..Len(X) |-> [codec |-> Codecs[i], value |-> X[j], typed |-> TRUE]]
               \o CasesFrom(i + 1)
Cases == CasesFrom(1)

\* The buffers a decoder is run on: each encoding, each of its prefixes,
\* each encoding with one byte replaced, and the buffers of the reader.
MutBytes == {0, 2, 255}
Inputs(b) ==
  {SubSeq(b, 1, n) : n \in 0..Len(b)}
    \cup {[b EXCEPT ![i] = x] : i \in 1..Len(b), x \in MutBytes}

\* The buffers and fills the reader and the writers are run on.
Buffers == << <<>>, <<1, 2>>, <<0, 0, 0, 1, 97, 255>> >>
\* A frame of envelope(Utf8) with the payload 00 00 00 02 61, the length
\* prefix 2 and the one byte 'a', and the byte 'b' after the frame.
Trailing == <<177, 110, 192, 222, 0, 1, 0, 0, 0, 5, 0, 0, 0, 2, 97, 98>>
MaxTotal == 4
MaxFill == 2
Fill(k, len) == [i \in 1..len |-> 10 * k + i]
Callbacks ==
  {[f |-> "slice", bytes |-> 0, le |-> FALSE], [f |-> "utf8", bytes |-> 0, le |-> FALSE]}
    \cup {[f |-> "getUint", bytes |-> n, le |-> FALSE] : n \in {1, 2, 4}}
\* The codecs handed to read(reader, ...codes).
Codes ==
  << <<literal(Sym("ok"))>>, <<Bool>>, <<Uint8>>, <<Fixed2>>, <<optional(Uint8)>>,
     <<literal(Sym("ok")), Bool>> >>

(***************************************************************************)
(* The state machine.  A behaviour exercises one part of the library:      *)
(*  "enc"     size, encode into a growable writer, encode into a fixed     *)
(*            writer of the computed size, and decode of the encoding;     *)
(*            typed says that the value is of the type of the codec;       *)
(*  "dec"     tryDecode and decode of a buffer that is an encoding, a      *)
(*            prefix of one, or one with a byte replaced;                  *)
(*  "writer"  the same write(size, fill) calls on a fixed and on a         *)
(*            growable writer, then flush;                                 *)
(*  "reader"  read(size, fn) calls, and read(reader, ...codes) calls, on a  *)
(*            reader or a checked reader.                                  *)
(***************************************************************************)
VARIABLES mode, codec, value, typed, input, sized, encoded, fitted, decoded, tried, raw,
          total, issued, nwrites, fixedW, growW, flushed, rd, last, got, nreads

encVars == <<sized, encoded, fitted, decoded>>
decVars == <<tried, raw>>
writerVars == <<total, issued, nwrites, fixedW, growW, flushed>>
readerVars == <<rd, last, got, nreads>>
vars == <<mode, codec, value, typed, input, encVars, decVars, writerVars, readerVars>>

Idle == [done |-> FALSE]

NoWriters ==
  /\ total = 0 /\ issued = 0 /\ nwrites = 0
  /\ fixedW = Written0(writer(0)) /\ growW = Written0(writer(-1))
  /\ flushed = Idle
NoReader == rd = reader(<<>>, 0) /\ last = Idle /\ got = Idle /\ nreads = 0
NoResults ==
  /\ sized = Idle /\ encoded = Idle /\ fitted = Idle /\ decoded = Idle
  /\ tried = Idle /\ raw = Idle

InitEnc ==
  /\ mode = "enc"
  /\ \E cs \in {Cases} : \E i \in 1..Len(cs) :
       codec = cs[i].codec /\ value = cs[i].value /\ typed = cs[i].typed
  /\ input = <<>>
  /\ NoResults /\ NoWriters /\ NoReader

InitDec ==
  /\ mode = "dec"
  /\ \E cs \in {Cases} : \E i \in 1..Len(cs) :
       \E a \in {encode(cs[i].codec, cs[i].value)} :
         /\ cs[i].typed /\ a.err = NoErr
         /\ codec = cs[i].codec
         /\ input \in Inputs(a.bytes) \cup {Buffers[j] : j \in 1..Len(Buffers)}
                      \cup {Trailing}
  /\ value = Undef /\ typed = TRUE
  /\ NoResults /\ NoWriters /\ NoReader

InitWriter ==
  /\ mode = "writer"
  /\ codec = NoCodec /\ value = Undef /\ typed = TRUE /\ input = <<>>
  /\ total \in 0..MaxTotal /\ issued = 0 /\ nwrites = 0
  /\ fixedW = Written0(writer(total)) /\ growW = Written0(writer(-1))
  /\ flushed = Idle
  /\ NoResults /\ NoReader

InitReader ==
  /\ mode = "reader"
  /\ codec = NoCodec /\ value = Undef /\ typed = TRUE
  /\ \E i \in 1..Len(Buffers) : input = Buffers[i]
  /\ \E o \in 0..1 : rd \in {reader(input, o), checkedReader(input, o)}
  /\ last = Idle /\ got = Idle /\ nreads = 0
  /\ NoResults /\ NoWriters

Init == InitEnc \/ InitDec \/ InitWriter \/ InitReader

\* size(codec, value)
Size ==
  /\ mode = "enc" /\ ~sized.done
  /\ LET a == size(codec, value)
     IN  sized' = [done |-> TRUE, n |-> a.n, err |-> a.err]
  /\ UNCHANGED <<mode, codec, value, typed, input, encoded, fitted, decoded, decVars,
                 writerVars, readerVars>>

\* encode(codec, value); w keeps the writer as the call left it.
Encode ==
  /\ mode = "enc" /\ sized.done /\ ~encoded.done
  /\ LET a == e(codec, writer(-1), value)
     IN  encoded' = [done |-> TRUE, bytes |-> encode(codec, value).bytes,
                     err |-> a.err, w |-> a.w]
  /\ UNCHANGED <<mode, codec, value, typed, input, sized, fitted, decoded, decVars,
                 writerVars, readerVars>>

\* write(writer(size(codec, value)), codec, value).flush()
EncodeFixed ==
  /\ mode = "enc" /\ encoded.done /\ ~fitted.done /\ sized.err = NoErr
  /\ LET a == write(writer(sized.n), codec, value)
     IN  fitted' = [done |-> TRUE, bytes |-> IF a.err = NoErr THEN flush(a.w) ELSE <<>>,
                    err |-> a.err, w |-> a.w]
  /\ UNCHANGED <<mode, codec, value, typed, input, sized, encoded, decoded, decVars,
                 writerVars, readerVars>>

\* decode(codec, encode(codec, value))
Decode ==
  /\ mode = "enc" /\ encoded.done /\ encoded.err = NoErr /\ ~decoded.done
  /\ LET a == decode(codec, encoded.bytes)
     IN  decoded' = [done |-> TRUE, val |-> a.val, err |-> a.err, r |-> a.r]
  /\ UNCHANGED <<mode, codec, value, typed, input, sized, encoded, fitted, decVars,
                 writerVars, readerVars>>

\* tryDecode(codec, input); r keeps the checked reader as the call left it.
TryDecode ==
  /\ mode = "dec" /\ ~tried.done
  /\ tried' = [done |-> TRUE, res |-> tryDecode(codec, input),
               r |-> d(codec, checkedReader(input, 0)).r]
  /\ UNCHANGED <<mode, codec, value, typed, input, encVars, raw, writerVars, readerVars>>

\* decode(codec, input), which reads through the unchecked reader.
DecodeRaw ==
  /\ mode = "dec" /\ tried.done /\ ~raw.done
  /\ LET a == decode(codec, input)
     IN  raw' = [done |-> TRUE, val |-> a.val, err |-> a.err, r |-> a.r]
  /\ UNCHANGED <<mode, codec, value, typed, input, encVars, tried, writerVars, readerVars>>

\* w.write(n, (b, o) => b.set(data, o)) on both writers; a writer whose
\* write threw takes no further call.
WriteBoth ==
  /\ mode = "writer" /\ ~flushed.done /\ nwrites < MaxWrites
  /\ \E n \in 0..MaxFill : \E len \in 0..(n + 1) :
       /\ issued + n <= total
       /\ issued' = issued + n
       /\ fixedW' = IF fixedW.err = NoErr
                      THEN WriterWrite(fixedW.w, n, Fill(nwrites + 1, len)) ELSE fixedW
       /\ growW' = IF growW.err = NoErr
                     THEN WriterWrite(growW.w, n, Fill(nwrites + 1, len)) ELSE growW
  /\ nwrites' = nwrites + 1
  /\ UNCHANGED <<mode, codec, value, typed, input, encVars, decVars, total, flushed, readerVars>>

\* flush() of both writers once the calls add up to the total size.
Flush ==
  /\ mode = "writer" /\ ~flushed.done /\ issued = total
  /\ flushed' = [done |-> TRUE,
                 f |-> [bytes |-> IF fixedW.err = NoErr THEN flush(fixedW.w) ELSE <<>>,
                        err |-> fixedW.err],
                 g |-> [bytes |-> IF growW.err = NoErr THEN flush(growW.w) ELSE <<>>,
                        err |-> growW.err]]
  /\ UNCHANGED <<mode, codec, value, typed, input, encVars, decVars, total, issued, nwrites,
                 fixedW, growW, readerVars>>

\* rd.read(n, fn); a reader stays usable after a read that threw.  last and
\* got hold the outcome of the latest call on the reader.
ReadStep ==
  /\ mode = "reader" /\ nreads < MaxReads
  /\ \E n \in 0..4 : \E fn \in Callbacks :
       /\ fn.f = "getUint" => fn.bytes = n
       /\ LET a == ReaderRead(rd, n, fn)
          IN  /\ rd' = a.r
              /\ last' = [done |-> TRUE, n |-> n, fn |-> fn, at |-> rd.pos, val |-> a.val,
                          err |-> a.err, called |-> a.called]
  /\ nreads' = nreads + 1
  /\ got' = Idle
  /\ UNCHANGED <<mode, codec, value, typed, input, encVars, decVars, writerVars>>

\* read(rd, ...codes)
ReadCodes ==
  /\ mode = "reader" /\ nreads < MaxReads
  /\ \E i \in 1..Len(Codes) :
       LET a == read(rd, Codes[i], <<>>)
       IN  /\ rd' = a.r
           /\ got' = [done |-> TRUE, codes |-> Codes[i], at |-> rd.pos, val |-> a.val,
                      err |-> a.err]
  /\ last' = Idle
  /\ nreads' = nreads + 1
  /\ UNCHANGED <<mode, codec, value, typed, input, encVars, decVars, writerVars>>

Next ==
  \/ Size \/ Encode \/ EncodeFixed \/ Decode
  \/ TryDecode \/ DecodeRaw
  \/ WriteBoth \/ Flush
  \/ ReadStep \/ ReadCodes

Spec == Init /\ [][Next]_vars

(***************************************************************************)
(* The properties checked.                                                 *)
(***************************************************************************)
\* The codecs whose size depends on the value.
DynamicKinds ==
  {"utf8", "bytes", "optional", "nullable", "array", "struct", "tuple", "taggedUnion",
   "discriminatedUnion", "envelope"}

\* C1: round trip: for every codec and every value v of its type that it
\* encodes, decode(codec, encode(codec, v)) returns a value deep-equal to v.
C1_RoundTrip ==
  (mode = "enc" /\ typed /\ decoded.done) =>
    (decoded.err = NoErr /\ DeepEqual(decoded.val, value))

\* C2: size and encode agree: for every dynamic-size codec and every value v of
\* its type that it encodes, size(codec, v) is the number of bytes of
\* encode(codec, v).
C2_SizeIsEncodedLength ==
  (mode = "enc" /\ typed /\ codec.k \in DynamicKinds /\ encoded.done /\ encoded.err = NoErr) =>
    (sized.err = NoErr /\ sized.n = Len(encoded.bytes))

\* C3: the size of map(codec, encodeProjection, decodeProjection) at an outer
\* value v is the inner codec's size of encodeProjection(v), which is the
\* number of bytes the mapped codec's encode writes for v.
C3_MapSizeProjects ==
  (mode = "enc" /\ codec.k = "map" /\ encoded.done /\ encoded.err = NoErr) =>
    /\ sized.err = NoErr
    /\ sized.n = size(codec.codec, Project(codec.encode, value)).n
    /\ sized.n = Len(encoded.bytes)

\* C4: the same write(size, fill) calls give the same bytes on flush from a
\* fixed writer allocated with the total size as from a growable writer: both
\* for the calls of the writer scenario and for the calls a codec's encode
\* issues, the fixed writer having the size that size(codec, value) returns.
C4_FixedEqualsGrowable ==
  /\ (mode = "writer" /\ flushed.done) => flushed.f = flushed.g
  /\ (mode = "enc" /\ typed /\ fitted.done) =>
       (fitted.err = encoded.err /\ fitted.bytes = encoded.bytes)

\* C5: a checked reader tests position + n <= buffer length before every
\* read.  A read of n bytes that would pass the end of the buffer raises the
\* bounds error that reports n, the position and the buffer length; the
\* callback is not invoked and the position does not move.  A read that fits
\* invokes the callback and, the callback having returned, leaves the position
\* advanced by exactly n; the one callback that can throw on bytes that are
\* all there is the fatal UTF-8 decoder, whose TypeError leaves the read
\* unfinished and the position where it was.
C5_CheckedReaderBounds ==
  (mode = "reader" /\ rd.checked /\ last.done) =>
    IF last.at + last.n > Len(input)
      THEN /\ last.err = [msg |-> "Out of bounds", need |-> last.n, at |-> last.at,
                          len |-> Len(input)]
           /\ ~last.called
           /\ rd.pos = last.at
      ELSE /\ last.called
           /\ last.err = NoErr => rd.pos = last.at + last.n
           /\ last.err # NoErr =>
                (last.err = TypeError /\ last.fn.f = "utf8" /\ rd.pos = last.at)

\* A checked reader asked for 4 bytes when only 2 remain.
C5_Witness ==
  /\ mode = "reader" /\ rd.checked /\ last.done
  /\ last.n = 4 /\ Len(input) - last.at = 2
  /\ last.err.msg = "Out of bounds"

\* C6: tryDecode(codec, buffer) never lets an error out: it returns either
\* the ok result that carries the value the decoder returned, or the failure
\* result that carries the error the decoder raised.
C6_TryDecodeReturns ==
  (mode = "dec" /\ tried.done) =>
    /\ ~tried.res.thrown
    /\ LET a == d(codec, checkedReader(input, 0))
       IN  IF a.err = NoErr
             THEN tried.res.ok /\ tried.res.error = NoErr /\ tried.res.value = a.val
             ELSE ~tried.res.ok /\ tried.res.error = a.err

\* tryDecode has returned the failure of a decoder that met malformed UTF-8.
C6_Witness ==
  mode = "dec" /\ tried.done /\ ~tried.res.ok /\ tried.res.error = TypeError

\* C7: the bytes envelope(inner) encodes for v are the 4-byte header
\* constant, the 2-byte version, the 4-byte length of the payload and the
\* payload, which is encode(inner, v); they are 10 + size(inner, v) bytes.
C7_EnvelopeLayout ==
  (mode = "enc" /\ typed /\ codec.k = "envelope" /\ encoded.done /\ encoded.err = NoErr) =>
    LET payload == encode(codec.inner, value).bytes
    IN  /\ encoded.bytes = setter(4, HEADER, FALSE) \o setter(2, VERSION, FALSE)
                             \o setter(4, Len(payload), FALSE) \o payload
        /\ Len(encoded.bytes) = 10 + size(codec.inner, value).n

\* C8: envelope decode, through either reader, of a buffer whose first 4
\* bytes are not the header constant fails with the header error, the reader
\* standing after the 4 bytes of the header; of a buffer with the header and
\* 2 bytes of another version it fails with the version error, the reader
\* standing after the 6 bytes of header and version: the length and the
\* payload are not read.
C8_EnvelopeRejects ==
  (mode = "dec" /\ codec.k = "envelope") =>
    LET badHeader == Len(input) >= 4 /\ SubSeq(input, 1, 4) # setter(4, HEADER, FALSE)
        badVersion == /\ Len(input) >= 6
                      /\ SubSeq(input, 1, 4) = setter(4, HEADER, FALSE)
                      /\ SubSeq(input, 5, 6) # setter(2, VERSION, FALSE)
    IN  /\ (tried.done /\ badHeader) =>
             (~tried.res.ok /\ tried.res.error = Err("Missing header") /\ tried.r.pos = 4)
        /\ (tried.done /\ badVersion) =>
             (~tried.res.ok /\ tried.res.error = Err("unsupported version")
                /\ tried.r.pos = 6)
        /\ (raw.done /\ badHeader) => (raw.err = Err("Missing header") /\ raw.r.pos = 4)
        /\ (raw.done /\ badVersion) =>
             (raw.err = Err("unsupported version") /\ raw.r.pos = 6)

\* decode has rejected an envelope that has the header and version 2, with
\* a length and a payload behind them.
C8_Witness ==
  /\ mode = "dec" /\ codec.k = "envelope" /\ raw.done
  /\ Len(input) > 10 /\ SubSeq(input, 1, 6) = setter(4, HEADER, FALSE) \o <<0, 2>>
  /\ raw.err = Err("unsupported version")

\* C9, as the code has it: array(inner, {maxLength: m}) raises when asked to
\* encode, or to size, a sequence longer than m, before it writes anything;
\* and it raises when asked to decode a buffer whose count prefix exceeds m,
\* after it has read the 4 bytes of the count and before it decodes any item.
C9_ArrayMaxLength ==
  /\ (mode = "enc" /\ codec.k = "array" /\ codec.max >= 0 /\ encoded.done
        /\ Len(value.v) > codec.max) =>
       /\ sized.err = Err("array too long")
       /\ encoded.err = Err("array too long")
       /\ encoded.w = writer(-1)
  /\ (mode = "dec" /\ codec.k = "array" /\ codec.max >= 0 /\ Len(input) >= 4
        /\ U32Gt(getter(input, 0, 4, FALSE).val.v, codec.max)) =>
       /\ tried.done =>
            (~tried.res.ok /\ tried.res.error = Err("array len > max") /\ tried.r.pos = 4)
       /\ raw.done => (raw.err = Err("array len > max") /\ raw.r.pos = 4)

\* The checked decoder of an array of at most 1 item has rejected a count of 2.
C9_Witness ==
  /\ mode = "dec" /\ codec.k = "array" /\ codec.max = 1 /\ tried.done
  /\ Len(input) > 4 /\ SubSeq(input, 1, 4) = <<0, 0, 0, 2>>
  /\ tried.res.error = Err("array len > max")

\* C9, as the specification has it: the decoder that raises on a count
\* beyond m has consumed nothing of the buffer.
C9_NothingConsumed ==
  (mode = "dec" /\ codec.k = "array" /\ codec.max >= 0 /\ Len(input) >= 4
     /\ U32Gt(getter(input, 0, 4, FALSE).val.v, codec.max)) =>
    /\ tried.done =>
         (~tried.res.ok /\ tried.res.error = Err("array len > max") /\ tried.r.pos = 0)
    /\ raw.done => (raw.err = Err("array len > max") /\ raw.r.pos = 0)

\* C10: array(inner) encodes a sequence as its 4-byte count and then the
\* inner encoding of each item, in the order of the sequence; decode reads the
\* count and then decodes that many items, the i-th item decoded being the
\* i-th item encoded.
C10_ArrayLayout ==
  /\ (mode = "enc" /\ typed /\ codec.k = "array" /\ encoded.done /\ encoded.err = NoErr) =>
       /\ encoded.bytes =
            setter(4, Len(value.v), FALSE)
              \o Concat([i \in 1..Len(value.v) |-> encode(codec.inner, value.v[i]).bytes])
       /\ decoded.done =>
            /\ decoded.err = NoErr /\ decoded.val.t = "arr"
            /\ Len(decoded.val.v) = Len(value.v)
            /\ \A i \in 1..Len(value.v) :
                 decoded.val.v[i]
                   = decode(codec.inner, encode(codec.inner, value.v[i]).bytes).val
  /\ (mode = "dec" /\ codec.k = "array" /\ codec.inner.k \in {"uint", "bool"}
        /\ tried.done /\ tried.res.ok) =>
       /\ tried.res.value.t = "arr"
       /\ Len(tried.res.value.v) = getter(input, 0, 4, FALSE).val.v
       /\ tried.r.pos = 4 + Len(tried.res.value.v) * size(codec.inner, Undef).n
       /\ \A i \in 1..Len(tried.res.value.v) :
            tried.res.value.v[i]
              = d(codec.inner, reader(input, 4 + (i - 1) * size(codec.inner, Undef).n)).val

\* An array of two different items has been encoded and decoded.
C10_Witness ==
  /\ mode = "enc" /\ codec.k = "array" /\ codec.inner.k = "uint" /\ decoded.done
  /\ value = Arr(<<Num(1), Num(255)>>)

\* The fields of a struct of the model in the order in which its declaration
\* lists them: no shape but Numbered has an integer-like name.
DeclaredFields(c) == IF c = NumberedStruct THEN Numbered ELSE c.schema

\* The encodings of the values that the object v has at fields[i], fields[i + 1],
\* ..., one after the other.
RECURSIVE FieldBytes(_, _, _)
FieldBytes(fields, v, i) ==
  IF i > Len(fields) THEN <<>>
  ELSE encode(fields[i].val, Get(v, fields[i].key)).bytes \o FieldBytes(fields, v, i + 1)

\* C11: struct(fields) sizes, encodes and decodes the fields in the order in
\* which they were declared: the encoding is the encodings of the fields in
\* that order with nothing between them, the size is the sum of the sizes of
\* the fields, and decode reads each field where that order places it.
C11_StructDeclaredOrder ==
  (mode = "enc" /\ typed /\ codec.k = "struct" /\ encoded.done /\ encoded.err = NoErr) =>
    LET fields == DeclaredFields(codec)
        at(i) == Len(FieldBytes(SubSeq(fields, 1, i - 1), value, 1))
    IN  /\ encoded.bytes = FieldBytes(fields, value, 1)
        /\ sized.err = NoErr
        /\ sized.n = SizeFields(fields, value, 1).n
        /\ decoded.done =>
             /\ decoded.err = NoErr
             /\ \A i \in 1..Len(fields) :
                  Get(decoded.val, fields[i].key)
                    = d(fields[i].val, reader(encoded.bytes, at(i))).val

\* C12: optional(inner) encodes the absent value as the single byte 0 and a
\* present value as the byte 1 followed by inner's encoding of it; its size
\* is 1, plus inner's size of the value when there is one; decode returns the
\* absent value when the flag byte is 0 and, for every other flag byte, what
\* inner decodes from the bytes behind the flag.
C12_OptionalFlag ==
  /\ (mode = "enc" /\ typed /\ codec.k = "optional" /\ encoded.done) =>
       /\ encoded.err = NoErr /\ sized.err = NoErr
       /\ IF value.t = "undef"
            THEN encoded.bytes = <<0>> /\ sized.n = 1
            ELSE /\ encoded.bytes = <<1>> \o encode(codec.inner, value).bytes
                 /\ sized.n = 1 + size(codec.inner, value).n
  /\ (mode = "dec" /\ codec.k = "optional" /\ Len(input) >= 1) =>
       /\ tried.done =>
            IF input[1] = 0
              THEN tried.res.ok /\ tried.res.value.t = "undef" /\ tried.r.pos = 1
              ELSE LET a == d(codec.inner, checkedReader(input, 1))
                   IN  /\ tried.res.ok = (a.err = NoErr)
                       /\ tried.res.error = a.err
                       /\ DeepEqual(tried.res.value, a.val)
                       /\ tried.r = a.r
       /\ raw.done =>
            IF input[1] = 0
              THEN raw.err = NoErr /\ raw.val.t = "undef" /\ raw.r.pos = 1
              ELSE LET a == d(codec.inner, reader(input, 1))
                   IN  raw.err = a.err /\ DeepEqual(raw.val, a.val) /\ raw.r = a.r
  /\ (mode = "reader" /\ got.done /\ got.codes = <<optional(Uint8)>>
        /\ got.at < Len(input)) =>
       IF input[got.at + 1] = 0
         THEN got.err = NoErr /\ DeepEqual(got.val, Arr(<<Undef>>)) /\ rd.pos = got.at + 1
         ELSE got.at + 1 < Len(input) =>
                /\ got.err = NoErr
                /\ DeepEqual(got.val, Arr(<<Num(input[got.at + 2])>>))
                /\ rd.pos = got.at + 2

\* The flag byte 255 in front of a string has been decoded as present.
C12_Witness ==
  /\ mode = "dec" /\ codec.k = "optional" /\ tried.done
  /\ Len(input) >= 1 /\ input[1] = 255
  /\ tried.res.ok /\ tried.res.value.t = "str"

\* The variants of a tagged union of the model in the order in which its
\* declaration lists them: no shape but NumberedVariants has an integer-like
\* name.
DeclaredVariants(c) == IF c = NumberedUnion THEN NumberedVariants ELSE c.schema

\* C13: taggedUnion(variants) encodes the pair (name, payload) as one byte,
\* the zero-based position of name among the variants in the order of their
\* declaration, followed by that variant's encoding of payload; decode takes
\* the index byte for a position in that order, returns the name declared
\* there and decodes the payload with the codec declared there.
C13_TaggedUnionIndex ==
  /\ (mode = "enc" /\ typed /\ codec.k = "taggedUnion" /\ encoded.done) =>
       LET variants == DeclaredVariants(codec)
           name == KeyOf(Item(value, 0))
           pos == IndexOf(ObjectKeys(variants), name)
       IN  /\ encoded.err = NoErr
           /\ encoded.bytes = <<pos>> \o encode(Prop(variants, name), Item(value, 1)).bytes
           /\ decoded.done =>
                /\ decoded.err = NoErr
                /\ DeepEqual(Item(decoded.val, 0), Sym(name))
                /\ DeepEqual(Item(decoded.val, 1),
                             d(Prop(variants, name), reader(encoded.bytes, 1)).val)
  /\ (mode = "dec" /\ codec.k = "taggedUnion" /\ tried.done /\ tried.res.ok) =>
       LET variants == DeclaredVariants(codec)
       IN  /\ Len(input) >= 1 /\ input[1] < Len(variants)
           /\ DeepEqual(Item(tried.res.value, 0), Sym(variants[input[1] + 1].key))
           /\ DeepEqual(Item(tried.res.value, 1),
                        d(variants[input[1] + 1].val, checkedReader(input, 1)).val)

\* C14: taggedUnion encode of a pair whose tag is the name of no variant
\* raises the tag error and writes nothing: a writer that was empty is empty
\* when the call ends, and a writer to which the field before the union wrote
\* a byte holds that byte and no more.
C14_UnknownTagWritesNothing ==
  /\ (mode = "enc" /\ codec.k = "taggedUnion" /\ value.t = "arr" /\ encoded.done
        /\ IndexOf(ObjectKeys(codec.schema), KeyOf(Item(value, 0))) < 0) =>
       /\ encoded.err = Err("bad tag")
       /\ encoded.w = writer(-1)
  /\ (mode = "enc" /\ codec = Counted /\ encoded.done
        /\ IndexOf(ObjectKeys(OneTwo.schema), KeyOf(Item(Get(value, "u"), 0))) < 0) =>
       /\ encoded.err = Err("bad tag")
       /\ flush(encoded.w) = <<ToNumber(Get(value, "n"))>>

\* The field before a union with the unknown tag 'three' has been written and
\* the encode has failed.
C14_Witness ==
  /\ mode = "enc" /\ codec = Counted /\ encoded.done
  /\ DeepEqual(Item(Get(value, "u"), 0), Sym("three"))
  /\ encoded.err = Err("bad tag")

\* C15: decode of a union whose index byte is beyond the declared range
\* raises instead of returning a value, through either reader: taggedUnion
\* raises the index error when the byte is not below the number of variants,
\* discriminatedUnion a TypeError when it is not below the number of
\* candidate schemas.
C15_IndexOutOfRange ==
  /\ (mode = "dec" /\ codec.k = "taggedUnion" /\ Len(input) >= 1
        /\ input[1] >= Len(codec.keys)) =>
       /\ tried.done => (~tried.res.ok /\ tried.res.error = Err("bad tag index"))
       /\ raw.done => raw.err = Err("bad tag index")
  /\ (mode = "dec" /\ codec.k = "discriminatedUnion" /\ Len(input) >= 1
        /\ input[1] >= Len(codec.schema)) =>
       /\ tried.done => (~tried.res.ok /\ tried.res.error = TypeError)
       /\ raw.done => raw.err = TypeError

\* decode has rejected the index 255 in front of the payload of a
\* discriminated union of two schemas.
C15_Witness ==
  /\ mode = "dec" /\ raw.done /\ Len(input) > 1
  /\ codec.k = "discriminatedUnion" /\ input[1] = 255 /\ raw.err = TypeError

\* C16: discriminatedUnion(tag, schemas), the literals being distinct,
\* encodes a value with the schema whose literal at tag is the value's tag:
\* one byte, the zero-based position of that schema in the list, then the
\* schema's encoding of the value, to which the literal field adds no byte;
\* decode takes the index byte for a position in the list, decodes with the
\* schema there and returns a value whose tag is that schema's literal.
C16_DiscriminatedDispatch ==
  /\ (mode = "enc" /\ typed /\ codec.k = "discriminatedUnion" /\ encoded.done) =>
       LET i == CHOOSE j \in 1..Len(codec.schema) :
                  Prop(codec.schema[j].schema, codec.tag).value = Get(value, codec.tag)
           chosen == codec.schema[i]
           rest == struct(SelectSeq(chosen.schema, LAMBDA f : f.key # codec.tag))
       IN  /\ encoded.err = NoErr
           /\ encoded.bytes = <<i - 1>> \o encode(chosen, value).bytes
           /\ encode(chosen, value).bytes = encode(rest, value).bytes
           /\ decoded.done =>
                /\ decoded.err = NoErr
                /\ DeepEqual(Get(decoded.val, codec.tag), Get(value, codec.tag))
  /\ (mode = "dec" /\ codec.k = "discriminatedUnion" /\ tried.done /\ tried.res.ok) =>
       /\ Len(input) >= 1 /\ input[1] < Len(codec.schema)
       /\ LET chosen == codec.schema[input[1] + 1]
          IN  /\ DeepEqual(Get(tried.res.value, codec.tag),
                           Prop(chosen.schema, codec.tag).value)
              /\ DeepEqual(tried.res.value, d(chosen, checkedReader(input, 1)).val)

\* A value tagged 'b' has been encoded behind the index 1 and decoded with
\* its tag back.
C16_Witness ==
  /\ mode = "enc" /\ codec.k = "discriminatedUnion" /\ decoded.done
  /\ DeepEqual(Get(value, "tag"), Sym("b"))
  /\ encoded.bytes[1] = 1
  /\ DeepEqual(Get(decoded.val, "tag"), Sym("b"))

\* C17: a literal codec has size 0; its encode writes nothing, whatever value
\* it is handed and whatever the writer holds: the writer is as it was; its
\* decode returns the bound value from every buffer and at every position of
\* the reader, checked or not, and leaves the reader where it was.
C17_LiteralIsFree ==
  /\ (mode = "enc" /\ codec.k = "literal") =>
       /\ sized.done => (sized.err = NoErr /\ sized.n = 0)
       /\ encoded.done =>
            (encoded.err = NoErr /\ encoded.w = writer(-1) /\ encoded.bytes = <<>>)
       /\ fitted.done => (fitted.err = NoErr /\ fitted.w = writer(0))
  /\ (mode = "enc" /\ codec = Spaced /\ typed) =>
       /\ encoded.done =>
            (encoded.err = NoErr
               /\ encoded.bytes = <<Item(value, 0).v, Item(value, 2).v>>)
       /\ fitted.done => (fitted.err = NoErr /\ fitted.bytes = encoded.bytes)
       /\ decoded.done =>
            (decoded.err = NoErr /\ DeepEqual(Item(decoded.val, 1), Sym("ok"))
               /\ decoded.r.pos = 2)
  /\ (mode = "dec" /\ codec.k = "literal") =>
       /\ tried.done =>
            (tried.res.ok /\ DeepEqual(tried.res.value, codec.value)
               /\ tried.r = checkedReader(input, 0))
       /\ raw.done =>
            (raw.err = NoErr /\ DeepEqual(raw.val, codec.value) /\ raw.r = reader(input, 0))
  /\ (mode = "reader" /\ got.done /\ got.codes = <<literal(Sym("ok"))>>) =>
       /\ got.err = NoErr
       /\ DeepEqual(got.val, Arr(<<Sym("ok")>>))
       /\ rd.pos = got.at

\* The literal has been decoded by a checked reader that stands past the end
\* of its buffer.
C17_Witness ==
  /\ mode = "reader" /\ got.done /\ got.codes = <<literal(Sym("ok"))>>
  /\ rd.checked /\ got.at > Len(input)
  /\ got.err = NoErr

\* C18: the boolean codec encodes true as the single byte 1 and false as the
\* single byte 0; it decodes a byte as true exactly when the byte is 1, every
\* other byte being false, and the decode of a byte moves the reader by one.
C18_BoolByte ==
  /\ (mode = "enc" /\ typed /\ codec.k = "bool" /\ encoded.done) =>
       /\ encoded.err = NoErr
       /\ encoded.bytes = <<IF value.v THEN 1 ELSE 0>>
  /\ (mode = "dec" /\ codec.k = "bool" /\ Len(input) >= 1) =>
       /\ tried.done =>
            (tried.res.ok /\ tried.res.value = Boo(input[1] = 1) /\ tried.r.pos = 1)
       /\ raw.done => (raw.err = NoErr /\ raw.val = Boo(input[1] = 1) /\ raw.r.pos = 1)
  /\ (mode = "reader" /\ got.done /\ got.codes = <<Bool>> /\ got.at < Len(input)) =>
       /\ got.err = NoErr
       /\ got.val = Arr(<<Boo(input[got.at + 1] = 1)>>)
       /\ rd.pos = got.at + 1

\* The byte 255 has been decoded as false.
C18_Witness ==
  /\ mode = "dec" /\ codec.k = "bool" /\ tried.done /\ input = <<255>>
  /\ tried.res.ok /\ tried.res.value = Boo(FALSE)

\* C19: utf8({fixed: N}) encodes a string of L <= N UTF-8 bytes as exactly N
\* bytes, the L bytes of the string and then N - L zero bytes, into either
\* writer; decode reads exactly N bytes and returns the string without its
\* trailing NULs.
C19_FixedStringPadding ==
  (mode = "enc" /\ typed /\ codec.k = "utf8fixed"
     /\ Len(ENC(value.v)) <= codec.fixed) =>
    LET padded == ENC(value.v) \o Zeros(codec.fixed - Len(ENC(value.v)))
    IN  /\ encoded.done => (encoded.err = NoErr /\ encoded.bytes = padded)
        /\ fitted.done => (fitted.err = NoErr /\ fitted.bytes = padded)
        /\ decoded.done =>
             /\ decoded.err = NoErr
             /\ decoded.r.pos = codec.fixed
             /\ decoded.val = Str(StripNul(value.v))

\* C20: the encode of utf8({fixed: N}) writes to the N bytes of its own slot
\* and to no other byte of the output, whatever the string and whichever the
\* writer: when struct({a: utf8({fixed: 2}), b: utf8({fixed: 2})}) has been
\* encoded, the slot of b, bytes 2 and 3 of the output, holds what the encode
\* of b put there, the bytes of the string b and zeros behind them, and
\* nothing of the string a.
C20_FixedStaysInSlot ==
  (mode = "enc" /\ typed /\ codec = TwoFixed) =>
    LET b == ENC(StrOf(Get(value, "b")))
    IN  /\ (encoded.done /\ encoded.err = NoErr) =>
             (Len(encoded.bytes) = 4 /\ Len(b) <= 2
                /\ SubSeq(encoded.bytes, 3, 4) = b \o Zeros(2 - Len(b)))
        /\ (fitted.done /\ fitted.err = NoErr) =>
             (Len(fitted.bytes) = 4 /\ Len(b) <= 2
                /\ SubSeq(fitted.bytes, 3, 4) = b \o Zeros(2 - Len(b)))

\* C21: utf8({maxBytes: m}) and bytes({max: m}) raise when asked to encode,
\* or to size, a value of more than m bytes, and have then written nothing;
\* a value within the bound is encoded as its 4-byte length and its bytes.
\* They raise when asked to decode a buffer whose length prefix exceeds m,
\* the reader standing behind the 4 bytes of the prefix; a prefix within the
\* bound does not raise the length error, and the value is returned when the
\* buffer holds that many bytes of well-formed content.
C21_MaxBytes ==
  /\ (mode = "enc" /\ typed /\ encoded.done
        /\ \/ codec.k = "utf8" /\ codec.maxBytes >= 0
           \/ codec.k = "bytes" /\ codec.max >= 0) =>
       LET str == codec.k = "utf8"
           m == IF str THEN codec.maxBytes ELSE codec.max
           content == IF str THEN ENC(value.v) ELSE value.v
           long == Err(IF str THEN "utf8 too long" ELSE "bytes too long")
       IN  IF Len(content) > m
             THEN sized.err = long /\ encoded.err = long /\ encoded.w = writer(-1)
             ELSE /\ sized.err = NoErr /\ encoded.err = NoErr
                  /\ encoded.bytes = setter(4, Len(content), FALSE) \o content
  /\ (mode = "dec" /\ Len(input) >= 4
        /\ \/ codec.k = "utf8" /\ codec.maxBytes >= 0
           \/ codec.k = "bytes" /\ codec.max >= 0) =>
       LET str == codec.k = "utf8"
           m == IF str THEN codec.maxBytes ELSE codec.max
           n == getter(input, 0, 4, FALSE).val.v
           over == Err(IF str THEN "utf8 length > max" ELSE "bytes length > max")
           whole == ~U32Gt(n, m) /\ 4 + n <= Len(input)
                      /\ (str => DEC(SubSeq(input, 5, 4 + n)).ok)
       IN  /\ tried.done =>
                IF U32Gt(n, m)
                  THEN ~tried.res.ok /\ tried.res.error = over /\ tried.r.pos = 4
                  ELSE tried.res.error # over /\ (whole => tried.res.ok /\ tried.r.pos = 4 + n)
           /\ raw.done =>
                IF U32Gt(n, m)
                  THEN raw.err = over /\ raw.r.pos = 4
                  ELSE raw.err # over /\ (whole => raw.err = NoErr /\ raw.r.pos = 4 + n)

\* The checked decoder of a string of at most 1 byte has rejected the length
\* prefix 2 with the bytes of a string behind it.
C21_Witness ==
  /\ mode = "dec" /\ codec.k = "utf8" /\ codec.maxBytes = 1 /\ tried.done
  /\ Len(input) > 4 /\ SubSeq(input, 1, 4) = <<0, 0, 0, 2>>
  /\ tried.res.error = Err("utf8 length > max")

\* C22: validate(codec, pre, post) leaves the wire format alone.  When pre
\* does not raise, size and encode give what codec gives; when pre raises,
\* encode raises its error and the writer holds what it held, also when a
\* field before the validated one has been written.  Decode returns what
\* codec decodes when post does not raise, and when post raises, the reader
\* stands where codec left it.
C22_ValidateKeepsWire ==
  /\ (mode = "enc" /\ codec.k = "validate" /\ encoded.done) =>
       LET pre == RunValidator(codec.pre, value)
           inner == e(codec.codec, writer(-1), value)
       IN  /\ sized.n = size(codec.codec, value).n /\ sized.err = size(codec.codec, value).err
           /\ IF pre = NoErr
                THEN /\ encoded.err = inner.err /\ encoded.w = inner.w
                     /\ encoded.bytes = encode(codec.codec, value).bytes
                ELSE encoded.err = pre /\ encoded.w = writer(-1)
  /\ (mode = "enc" /\ codec = Checked /\ encoded.done) =>
       IF StrOf(Get(value, "s")) = <<>>
         THEN /\ encoded.err = Err("empty string")
              /\ flush(encoded.w) = <<ToNumber(Get(value, "n"))>>
         ELSE /\ encoded.err = NoErr
              /\ encoded.bytes = <<ToNumber(Get(value, "n"))>>
                                   \o encode(Utf8, Get(value, "s")).bytes
  /\ (mode = "dec" /\ codec.k = "validate" /\ tried.done) =>
       LET a == d(codec.codec, checkedReader(input, 0))
           post == RunValidator(codec.post, a.val)
       IN  /\ tried.r = a.r
           /\ IF a.err # NoErr THEN ~tried.res.ok /\ tried.res.error = a.err
              ELSE IF post # NoErr THEN ~tried.res.ok /\ tried.res.error = post
              ELSE tried.res.ok /\ DeepEqual(tried.res.value, a.val)
  /\ (mode = "dec" /\ codec.k = "validate" /\ raw.done) =>
       LET a == d(codec.codec, reader(input, 0))
           post == RunValidator(codec.post, a.val)
       IN  /\ raw.r = a.r
           /\ IF a.err # NoErr THEN raw.err = a.err
              ELSE IF post # NoErr THEN raw.err = post
              ELSE raw.err = NoErr /\ DeepEqual(raw.val, a.val)

\* pre has rejected the empty string behind a field that was written, and
\* the writer holds the byte of that field alone.
C22_Witness ==
  /\ mode = "enc" /\ codec = Checked /\ encoded.done
  /\ StrOf(Get(value, "s")) = <<>> /\ ToNumber(Get(value, "n")) = 255
  /\ encoded.err = Err("empty string") /\ flush(encoded.w) = <<255>>

\* The fields of a merge, in the order in which their names first come up in
\* entries[i], entries[i + 1], ..., each with the codec of its last entry; acc
\* holds the fields of the entries before i.
RECURSIVE MergeFields(_, _, _)
MergeFields(entries, i, acc) ==
  IF i > Len(entries) THEN acc
  ELSE IF \E j \in 1..Len(acc) : acc[j].key = entries[i].key
    THEN MergeFields(entries, i + 1,
           [j \in 1..Len(acc) |-> IF acc[j].key = entries[i].key THEN entries[i] ELSE acc[j]])
    ELSE MergeFields(entries, i + 1, Append(acc, entries[i]))

\* C23: intersection(schemas) is a struct whose fields are the fields of all
\* the schemas, a name that several schemas have taking the codec of the last
\* of them, in the order in which the names first come up in the merge: it
\* encodes a value as the encodings of the fields in that order.
C23_IntersectionOrder ==
  \A i \in 1..Len(Intersections) :
    (mode = "enc" /\ typed /\ codec = intersection(Intersections[i]) /\ encoded.done) =>
      LET entries == Concat([j \in 1..Len(Intersections[i]) |->
                               Intersections[i][j].schema])
          fields == MergeFields(entries, 1, <<>>)
      IN  /\ codec.k = "struct"
          /\ {codec.schema[j].key : j \in 1..Len(codec.schema)}
               = {entries[j].key : j \in 1..Len(entries)}
          /\ \A j \in 1..Len(fields) : Prop(codec.schema, fields[j].key) = fields[j].val
          /\ ObjectKeys(codec.schema) = ObjectKeys(fields)
          /\ encoded.err = NoErr
          /\ encoded.bytes = FieldBytes(fields, value, 1)

\* C24: an unchecked reader tests no bounds.  Asked for n bytes, also when
\* fewer than n remain, it raises nothing of its own: it calls the callback
\* with the offsets position and position + n, so that a callback that
\* slices gets the bytes that are there, and when the callback has returned
\* the position is advanced by n, past the end of the buffer if need be.  The
\* errors that leave a read are the callback's own, the RangeError of a
\* DataView getter handed offsets past the end and the TypeError of the fatal
\* UTF-8 decoder, and they leave the position where it was.
C24_UncheckedReader ==
  (mode = "reader" /\ ~rd.checked /\ last.done) =>
    /\ last.called
    /\ last.err.msg # "Out of bounds"
    /\ last.fn.f = "slice" =>
         /\ last.err = NoErr
         /\ last.val = Bin(Slice(input, last.at, last.at + last.n))
    /\ last.err = NoErr => rd.pos = last.at + last.n
    /\ last.err # NoErr =>
         /\ rd.pos = last.at
         /\ \/ last.fn.f = "getUint" /\ last.err = RangeError
                  /\ last.at + last.n > Len(input)
            \/ last.fn.f = "utf8" /\ last.err = TypeError

\* An unchecked reader asked for 4 bytes when 2 remain has handed out the 2
\* bytes and stands 2 bytes past the end of the buffer.
C24_Witness ==
  /\ mode = "reader" /\ ~rd.checked /\ last.done
  /\ last.n = 4 /\ Len(input) - last.at = 2 /\ last.fn.f = "slice"
  /\ last.err = NoErr /\ Len(last.val.v) = 2
  /\ rd.pos = Len(input) + 2

\* C25: a tuple has the arity of its declaration: whatever the length of
\* the value it is handed, its size function and its encoder go through the
\* declared positions 1..n and no others, so that the size of a value is the
\* number of bytes its encoding has.
C25_TupleFixedArity ==
  (mode = "enc" /\ codec.k = "tuple" /\ value.t = "arr" /\ encoded.done
     /\ encoded.err = NoErr) =>
    (sized.err = NoErr /\ sized.n = Len(encoded.bytes))

\* The input begins with a well-formed frame: the header, the version 1, a
\* length, and at least that many bytes of payload.
FrameLength == d(Uint32, reader(input, 6)).val.v
WellFormedFrame ==
  /\ Len(input) >= 10
  /\ d(Uint32, reader(input, 0)).val.v = HEADER
  /\ d(Uint16, reader(input, 4)).val.v = VERSION
  /\ FrameLength >= 0 /\ 10 + FrameLength <= Len(input)

\* C26: the envelope's decoder, on a well-formed frame, takes exactly
\* `length` bytes of payload from the outer reader and decodes them through
\* a fresh reader of that slice: the outer reader, checked or not, then
\* stands at 10 + length, whatever the inner codec read, and the outcome is
\* that of the inner codec on the payload alone, so that the bytes after
\* the frame have no part in it.
C26_EnvelopeFrame ==
  (mode = "dec" /\ codec.k = "envelope" /\ raw.done /\ WellFormedFrame) =>
    LET x == d(codec.inner, reader(Slice(input, 10, 10 + FrameLength), 0))
    IN  /\ raw.r.pos = 10 + FrameLength
        /\ tried.r.pos = 10 + FrameLength
        /\ raw.err = x.err
        /\ x.err = NoErr => DeepEqual(raw.val, x.val)
        /\ tried.res.ok = (x.err = NoErr)
        /\ x.err = NoErr => DeepEqual(tried.res.value, x.val)

\* A well-formed frame with a byte after it has been decoded: the inner
\* codec read past the 5 bytes of its payload, the outer reader stands at
\* the end of the frame, and the value has nothing of the byte that follows.
C26_Witness ==
  /\ mode = "dec" /\ codec.k = "envelope" /\ raw.done /\ WellFormedFrame
  /\ 10 + FrameLength < Len(input)
  /\ raw.err = NoErr /\ raw.r.pos = 10 + FrameLength
  /\ raw.val = Str(<<97>>)
  /\ d(codec.inner, reader(Slice(input, 10, 10 + FrameLength), 0)).r.pos > FrameLength

\* C27: tryDecode bounds every read, those of an envelope's inner codec
\* too: a well-formed frame whose payload is shorter than what the inner
\* codec reads, as a bounds-checked reader of the payload finds, gives a
\* failure and never an ok result.
C27_TryDecodeBoundsInner ==
  (mode = "dec" /\ codec.k = "envelope" /\ tried.done /\ WellFormedFrame
     /\ d(codec.inner, checkedReader(Slice(input, 10, 10 + FrameLength), 0)).err.msg
          = "Out of bounds") =>
    ~tried.res.ok

\* C28: discriminatedUnion encode of a value whose tag is the literal of no
\* candidate raises and leaves the writer as it was: no index byte has been
\* written when the call ends.
C28_UnknownLiteralWritesNothing ==
  (mode = "enc" /\ codec.k = "discriminatedUnion" /\ value.t = "obj" /\ encoded.done
     /\ IndexOf(codec.keys, Get(value, codec.tag)) < 0) =>
    /\ encoded.err # NoErr
    /\ encoded.w = writer(-1)

\* C29: a taggedUnion, of any number of variants, writes distinct variants
\* with distinct index bytes: the byte written for a value's variant is the
\* index byte of no other variant, and decode gives the name of that same
\* variant back.
C29_DistinctIndexBytes ==
  (mode = "enc" /\ typed /\ codec.k = "taggedUnion" /\ encoded.done
     /\ encoded.err = NoErr) =>
    /\ \A j \in 1..Len(codec.keys) :
         codec.keys[j] # KeyOf(Item(value, 0)) =>
           encode(Uint8, Num(j - 1)).bytes[1] # encoded.bytes[1]
    /\ decoded.done =>
         (decoded.err = NoErr /\ DeepEqual(Item(decoded.val, 0), Item(value, 0)))
=============================================================================
